---------------------------- MODULE Spec2Model ----------------------------
(***************************************************************************)
(* A model of the asteval repository: the tree-walking evaluators in       *)
(* src/asteval/asteval.py (with function.py, frame.py, module.py) and in   *)
(* src/lib/asteval.py, and the safety primitives of src/asteval/astutils.py*)
(***************************************************************************)
EXTENDS Integers, Sequences, FiniteSets, TLC

(***************************************************************************)
(* Program constants (src/asteval/astutils.py:50-53).                      *)
(***************************************************************************)
MAX_EXPONENT == 10000
MAX_STR_LEN == 262144
MAX_SHIFT == 1000
MAX_OPEN_BUFFER == 262144

(***************************************************************************)
(* Runtime values.  Every value is a record [t, v]: t is the Python type   *)
(* name, v a sequence.  A str is represented by its length (a string over  *)
(* a one-letter alphabet, as in '*' * n), which is all that len(), + and * *)
(* on strings depend on.  Values are compared with SameValue, type first.  *)
(***************************************************************************)
IntV(n) == [t |-> "int", v |-> <<n>>]
BoolV(b) == [t |-> "bool", v |-> <<IF b THEN 1 ELSE 0>>]
StrV(n) == [t |-> "str", v |-> <<n>>]
NoneV == [t |-> "NoneType", v |-> <<>>]
ListV(s) == [t |-> "list", v |-> s]
\* a string with its characters, for the programs that look into them;
\* GRAVE is the character chr(96), named as a Python literal escapes it
GRAVE == "\\x60"
TextV(chars) == [t |-> "str", v |-> <<Len(chars), chars>>]
SameValue(a, b) == a.t = b.t /\ a.v = b.v

\* isinstance(x, numbers.Number) / isinstance(x, int) / isinstance(x, str)
IsNumber(x) == x.t \in {"int", "bool"}
IsInt(x) == x.t \in {"int", "bool"}
IsStr(x) == x.t = "str"

\* The outcome of a call: a returned value, or a raised exception kind.
Returns(val) == [exc |-> "none", val |-> val]
Raises(kind) == [exc |-> kind, val |-> NoneV]

(***************************************************************************)
(* The host's ordinary operations, which the safe_* wrappers forward to.   *)
(* Exponents and shift counts are computed exactly; the inputs drawn below *)
(* keep every result inside the 32-bit integers of the model checker.     *)
(***************************************************************************)
RECURSIVE IntPow(_, _)
IntPow(a, n) ==
    IF n = 0 THEN 1
    ELSE LET h == IntPow(a, n \div 2)
         IN  IF n % 2 = 0 THEN h * h ELSE h * h * a

\* base ** exp
PyPow(base, exp) ==
    IF IsNumber(base) /\ IsNumber(exp)
    THEN IF exp.v[1] < 0 /\ base.v[1] = 0 THEN Raises("ZeroDivisionError")
         ELSE IF exp.v[1] < 0
              THEN Returns([t |-> "float", v |-> <<IntPow(base.v[1], -exp.v[1])>>])
              ELSE Returns(IntV(IntPow(base.v[1], exp.v[1])))
    ELSE Raises("TypeError")

\* arg1 << arg2
PyLShift(arg1, arg2) ==
    IF IsInt(arg1) /\ IsInt(arg2)
    THEN IF arg2.v[1] < 0 THEN Raises("ValueError")
         ELSE IF arg1.v[1] = 0 THEN Returns(IntV(0))
         ELSE Returns(IntV(arg1.v[1] * IntPow(2, arg2.v[1])))
    ELSE Raises("TypeError")

NonNeg(n) == IF n < 0 THEN 0 ELSE n

\* arg1 * arg2
PyMul(arg1, arg2) ==
    IF IsInt(arg1) /\ IsInt(arg2) THEN Returns(IntV(arg1.v[1] * arg2.v[1]))
    ELSE IF IsStr(arg1) /\ IsInt(arg2) THEN Returns(StrV(NonNeg(arg1.v[1] * arg2.v[1])))
    ELSE IF IsInt(arg1) /\ IsStr(arg2) THEN Returns(StrV(NonNeg(arg1.v[1] * arg2.v[1])))
    ELSE Raises("TypeError")

\* arg1 + arg2
PyAdd(arg1, arg2) ==
    IF IsInt(arg1) /\ IsInt(arg2) THEN Returns(IntV(arg1.v[1] + arg2.v[1]))
    ELSE IF IsStr(arg1) /\ IsStr(arg2) THEN Returns(StrV(arg1.v[1] + arg2.v[1]))
    ELSE IF arg1.t = "list" /\ arg2.t = "list" THEN Returns(ListV(arg1.v \o arg2.v))
    ELSE Raises("TypeError")

(***************************************************************************)
(* Safe versions of functions (src/asteval/astutils.py:216-251).           *)
(***************************************************************************)
\* safe_pow with the limit itself refused
safe_pow_refuse_limit(base, exp) ==
    IF IsNumber(exp) /\ exp.v[1] >= MAX_EXPONENT
    THEN Raises("RuntimeError")
    ELSE PyPow(base, exp)

safe_pow(base, exp) ==
    IF IsNumber(exp) /\ exp.v[1] > MAX_EXPONENT
    THEN Raises("RuntimeError")
    ELSE PyPow(base, exp)

safe_mult(arg1, arg2) ==
    IF IsStr(arg1) /\ IsInt(arg2) /\ arg1.v[1] * arg2.v[1] > MAX_STR_LEN
    THEN Raises("RuntimeError")
    ELSE PyMul(arg1, arg2)

\* safe_add that looks at the left operand alone
safe_add_left_only(arg1, arg2) ==
    IF IsStr(arg1) /\ IsStr(arg2) /\ arg1.v[1] > MAX_STR_LEN
    THEN Raises("RuntimeError")
    ELSE PyAdd(arg1, arg2)

safe_add(arg1, arg2) ==
    IF IsStr(arg1) /\ IsStr(arg2) /\ arg1.v[1] + arg2.v[1] > MAX_STR_LEN
    THEN Raises("RuntimeError")
    ELSE PyAdd(arg1, arg2)

safe_lshift(arg1, arg2) ==
    IF IsNumber(arg2) /\ arg2.v[1] > MAX_SHIFT
    THEN Raises("RuntimeError")
    ELSE PyLShift(arg1, arg2)

(***************************************************************************)
(* The read-only open() (src/asteval/astutils.py:199-205).  The host's     *)
(* open() finds the files of HostFiles and no others; every call that      *)
(* reaches it is recorded in `opened`.                                     *)
(***************************************************************************)
HostFiles == {"data.txt"}
ReadModes == {"r", "rb", "rU"}

HostOpen(filename, mode, buffering) ==
    [out |-> IF filename \in HostFiles
             THEN Returns([t |-> "file", v |-> <<buffering>>])
             ELSE Raises("FileNotFoundError"),
     opened |-> << <<filename, mode>> >>]

\* _open without the test of the buffering
_open_any_buffering(filename, mode, buffering) ==
    IF mode \notin ReadModes
    THEN [out |-> Raises("RuntimeError"), opened |-> <<>>]
    ELSE HostOpen(filename, mode, buffering)

_open(filename, mode, buffering) ==
    IF mode \notin ReadModes
    THEN [out |-> Raises("RuntimeError"), opened |-> <<>>]
    ELSE IF buffering > MAX_OPEN_BUFFER
    THEN [out |-> Raises("RuntimeError"), opened |-> <<>>]
    ELSE HostOpen(filename, mode, buffering)

(***************************************************************************)
(* Names (src/asteval/astutils.py:55-74, 329-352).  Every identifier the   *)
(* programs below use is lexically a NAME token, so valid_symbol_name      *)
(* reduces to the reserved-word test.                                      *)
(***************************************************************************)
RESERVED_WORDS ==
    {"False", "None", "True", "and", "as", "assert", "async", "await",
     "break", "class", "continue", "def", "del", "elif", "else", "except",
     "finally", "for", "from", "global", "if", "import", "in", "is",
     "lambda", "nonlocal", "not", "or", "pass", "raise", "return", "try",
     "while", "with", "yield", "exec", "eval", "execfile", "__import__",
     "__package__", "__fstring__"}

UNSAFE_ATTRS ==
    {"__subclasses__", "__bases__", "__globals__", "__code__",
     "__reduce__", "__reduce_ex__", "__mro__", "__closure__", "__func__",
     "__self__", "__module__", "__dict__", "__class__", "__call__",
     "__get__", "__getattribute__", "__subclasshook__", "__new__",
     "__init__", "func_globals", "func_code", "func_closure", "im_class",
     "im_func", "im_self", "gi_code", "gi_frame", "f_locals",
     "__asteval__", "mro"}

valid_symbol_name(name) == name \notin RESERVED_WORDS

\* attr.startswith('__') and attr.endswith('__'), over the attribute names
\* the programs below use.
DunderNames ==
    {"__subclasses__", "__bases__", "__globals__", "__code__",
     "__reduce__", "__reduce_ex__", "__mro__", "__closure__", "__func__",
     "__self__", "__module__", "__dict__", "__class__", "__call__",
     "__get__", "__getattribute__", "__subclasshook__", "__new__",
     "__init__", "__asteval__", "__doc__", "__name__", "__len__",
     "__missing__"}
IsDunder(attr) == attr \in DunderNames

(***************************************************************************)
(* The host's objects: getattr, truth value, iteration.                    *)
(***************************************************************************)
\* Attributes every Python object has.
ObjectAttrs ==
    {"__class__", "__doc__", "__init__", "__new__", "__reduce__",
     "__reduce_ex__", "__subclasshook__", "__getattribute__"}

TypeAttrs(t) ==
    CASE t = "int" -> {"real", "imag"}
      [] t = "bool" -> {"real", "imag"}
      [] t = "str" -> {"upper", "format", "__len__"}
      [] t = "list" -> {"append", "__len__"}
      [] t = "range" -> {"start", "stop", "__len__"}
      [] t = "dict" -> {"keys", "__len__"}
      [] t = "Function" -> {"name", "__name__", "__asteval__", "__call__",
                            "__dict__", "__module__", "body", "argnames"}
      [] t = "Procedure" -> {"name", "interpreter", "raise_exc", "__call__",
                             "__dict__", "__module__", "body", "argnames"}
      [] t = "builtin" -> {"__name__", "__call__", "__self__", "__module__"}
      [] OTHER -> {}

HasAttr(obj, attr) == attr \in ObjectAttrs \cup TypeAttrs(obj.t)

\* The value getattr(obj, attr) yields: the attribute `attr` of `obj`.
AttrV(obj, attr) == [t |-> "attribute", v |-> <<obj, attr>>]

\* The attributes setattr gave a Function instance (the class has no
\* __slots__): its __dict__, a sequence of [name, val].
instance_attr(obj, attr) ==
    IF obj.t = "Function"
    THEN SelectSeq(obj.v[1].attrs, LAMBDA a : a.name = attr)
    ELSE <<>>

getattr(obj, attr) ==
    IF instance_attr(obj, attr) # <<>>
    THEN Returns(instance_attr(obj, attr)[1].val)
    ELSE IF HasAttr(obj, attr) THEN Returns(AttrV(obj, attr))
    ELSE Raises("AttributeError")

\* setattr(obj, attr, val) on a Function instance: the object with the
\* attribute set.
setattr(obj, attr, val) ==
    [obj EXCEPT !.v[1].attrs =
        SelectSeq(@, LAMBDA a : a.name # attr) \o <<[name |-> attr, val |-> val]>>]

\* UNSAFE_ATTRS_DTYPES: the attributes unsafe for objects of one type
UNSAFE_ATTRS_DTYPES(t) == IF t = "str" THEN {"format", "format_map"} ELSE {}

\* safe_getattr (src/asteval/astutils.py:286-307); no object here is one
\* of the UNSAFE_MODULES
safe_getattr(obj, attr) ==
    LET unsafe == \/ attr \in UNSAFE_ATTRS
                  \/ IsDunder(attr)
                  \/ attr \in UNSAFE_ATTRS_DTYPES(obj.t)
    IN  IF unsafe THEN Raises("AttributeError") ELSE getattr(obj, attr)

Truthy(val) ==
    CASE val.t \in {"int", "bool"} -> val.v[1] # 0
      [] val.t = "NoneType" -> FALSE
      [] val.t \in {"list", "range", "dict", "tuple"} -> Len(val.v) > 0
      [] val.t = "str" -> val.v[1] > 0
      [] OTHER -> TRUE

IsIterable(val) == val.t \in {"list", "range", "tuple"}

RECURSIVE RangeSeq(_, _)
RangeSeq(lo, hi) == IF lo >= hi THEN <<>> ELSE <<IntV(lo)>> \o RangeSeq(lo + 1, hi)

(***************************************************************************)
(* Abstract syntax trees, as ast.parse delivers them.  `type` is the       *)
(* lowercased class name the dispatcher looks handlers up by.              *)
(***************************************************************************)
NoNode == [type |-> "none"]
Module(body) == [type |-> "module", body |-> body]
Expr(value) == [type |-> "expr", value |-> value]
Num(n) == [type |-> "num", n |-> n]
Str(chars) == [type |-> "str", s |-> chars]
NameConstant(value) == [type |-> "nameconstant", value |-> value]
Name(id) == [type |-> "name", id |-> id]
Attribute(value, attr) ==
    [type |-> "attribute", value |-> value, attr |-> attr, ctx |-> "Load"]
AttributeStore(value, attr) ==
    [type |-> "attribute", value |-> value, attr |-> attr, ctx |-> "Store"]
AugAssign(target, op, value) ==
    [type |-> "augassign", target |-> target, op |-> op, value |-> value]
BinOp(left, op, right) == [type |-> "binop", left |-> left, op |-> op, right |-> right]
Assign(target, value) == [type |-> "assign", targets |-> <<target>>, value |-> value]
Return(value) == [type |-> "return", value |-> value]
Pass == [type |-> "pass"]
If(test, body, orelse) == [type |-> "if", test |-> test, body |-> body, orelse |-> orelse]
Call(func, args, keywords) ==
    [type |-> "call", func |-> func, args |-> args, keywords |-> keywords]
keyword(arg, value) == [arg |-> arg, value |-> value]
arg(name) == [type |-> "arg", arg |-> name]
\* vararg / kwarg "" stand for the None of a signature without *args / **kw
FunctionDef(name, args, defaults, body) ==
    [type |-> "functiondef", name |-> name,
     args |-> [i \in 1..Len(args) |-> arg(args[i])], defaults |-> defaults,
     vararg |-> "", kwarg |-> "", body |-> body]
comprehension(target, iter, ifs) ==
    [type |-> "comprehension", target |-> target, iter |-> iter, ifs |-> ifs]
ListComp(elt, generators) ==
    [type |-> "listcomp", elt |-> elt, generators |-> generators]
DictComp(key, value, generators) ==
    [type |-> "dictcomp", key |-> key, value |-> value, generators |-> generators]
Lambda == [type |-> "lambda"]
\* an ExceptHandler: etype / name "" stand for the None of a bare `except:`
\* and of a handler without `as name`
ExceptHandler(etype, name, body) ==
    [type |-> "excepthandler", etype |-> etype, name |-> name, body |-> body]
Try(body, handlers, orelse, finalbody) ==
    [type |-> "try", body |-> body, handlers |-> handlers, orelse |-> orelse,
     finalbody |-> finalbody]
While(test, body, orelse) ==
    [type |-> "while", test |-> test, body |-> body, orelse |-> orelse]
For(target, iter, body, orelse) ==
    [type |-> "for", target |-> target, iter |-> iter, body |-> body,
     orelse |-> orelse]
Break == [type |-> "break"]
Continue == [type |-> "continue"]
Compare(left, ops, comparators) ==
    [type |-> "compare", left |-> left, ops |-> ops, comparators |-> comparators]
BoolOp(op, values) == [type |-> "boolop", op |-> op, values |-> values]
\* the print statement of the Python the library was written for
print_stmt(values) == [type |-> "print", dest |-> NoNode, values |-> values, nl |-> TRUE]

(***************************************************************************)
(* src/asteval/frame.py, src/asteval/function.py: frames and functions.    *)
(***************************************************************************)
NoSymbols == [n \in {} |-> NoneV]

\* Frame.__init__ (the Symbol.modified flag only feeds the UI trace and is
\* left out, with the trace).
Frame(name, initial_symbols) ==
    [name |-> name, symbols |-> initial_symbols, retval |-> NoneV]

\* Function.__init__
Function(name, mod, body, args, kwargs, vararg, varkws) ==
    [t |-> "Function",
     v |-> <<[name |-> name, mod |-> mod, body |-> body, argnames |-> args,
              kwargs |-> kwargs, vararg |-> vararg, varkws |-> varkws,
              attrs |-> <<>>]>>]

BuiltinV(name) == [t |-> "builtin", v |-> <<name>>]

\* The sentinels of astutils: ReturnedNone = Empty(), NoReturn
ReturnedNone == [t |-> "Empty", v |-> <<"ReturnedNone">>]
NoReturn == [t |-> "Empty", v |-> <<"NoReturn">>]

(***************************************************************************)
(* src/asteval/asteval.py: the Interpreter.  An evaluation step takes the  *)
(* interpreter state s and yields [s, val, exc]: the state after it, the   *)
(* value returned, and the exception raised ("none" when it returned).     *)
(***************************************************************************)
Ok(s, val) == [s |-> s, val |-> val, exc |-> "none"]
Raise(s, kind) == [s |-> s, val |-> NoneV, exc |-> kind]

\* Interpreter.supported_nodes
supported_nodes ==
    {"arg", "assert", "assign", "attribute", "augassign", "binop", "boolop",
     "break", "call", "compare", "continue", "delete", "dict", "dictcomp",
     "ellipsis", "excepthandler", "expr", "extslice", "for", "functiondef",
     "if", "ifexp", "index", "interrupt", "list", "listcomp", "module",
     "name", "nameconstant", "num", "pass", "raise", "repr", "return", "set",
     "slice", "starred", "str", "subscript", "try", "tuple", "unaryop",
     "while", "import", "importfrom"}

\* Interpreter.raise_exception
raise_exception(s, exc) == Raise([s EXCEPT !.error = exc], exc)

\* a dispatch that passes over a node it has no handler for
unimplemented_none(s) == Ok(s, NoneV)

\* Interpreter.unimplemented
unimplemented(s) == raise_exception(s, "NotImplementedError")

get_current_frame(s) == s.frames[Len(s.frames)]

push_frame(s, frame) == [s EXCEPT !.frames = Append(@, frame)]

\* a pop_frame that leaves the frame on the stack
keep_frame(s) == s

pop_frame(s) == [s EXCEPT !.frames = SubSeq(@, 1, Len(@) - 1)]

enter_module(s, name) == [s EXCEPT !.mod_stack = Append(@, name)]

leave_module(s) == [s EXCEPT !.mod_stack = SubSeq(@, 1, Len(@) - 1)]

\* Frame.is_symbol
is_symbol(frame, name) == name \in DOMAIN frame.symbols

\* Interpreter.find_frame: the index of the innermost frame that defines
\* the symbol, 0 when no frame does.
find_frame(s, name) ==
    LET hits == {i \in 1..Len(s.frames) : is_symbol(s.frames[i], name)}
    IN  IF hits = {} THEN 0 ELSE CHOOSE i \in hits : \A j \in hits : j <= i

\* Interpreter.set_symbol, Frame.set_symbol
set_symbol(s, name, val) ==
    [s EXCEPT !.frames[Len(s.frames)].symbols = (name :> val) @@ @]

(***************************************************************************)
(* Python dicts: a sequence of [k, val] pairs in insertion order, with     *)
(* pairwise different keys.  A keyword name is the key KeyV(name).         *)
(***************************************************************************)
KeyV(id) == [t |-> "key", v |-> <<id>>]
DictHas(d, k) == \E i \in 1..Len(d) : SameValue(d[i].k, k)
DictIndex(d, k) == CHOOSE i \in 1..Len(d) : SameValue(d[i].k, k)
DictGet(d, k) == d[DictIndex(d, k)].val
DictSet(d, k, val) ==
    IF DictHas(d, k) THEN [d EXCEPT ![DictIndex(d, k)].val = val]
    ELSE Append(d, [k |-> k, val |-> val])
DictPop(d, k) ==
    LET i == DictIndex(d, k) IN SubSeq(d, 1, i - 1) \o SubSeq(d, i + 1, Len(d))
DictV(d) == [t |-> "dict", v |-> d]
TupleV(s) == [t |-> "tuple", v |-> s]

\* op2func (src/asteval/astutils.py:254-282, 355-357)
op2func(op, left, right) ==
    CASE op = "Add" -> safe_add(left, right)
      [] op = "Mult" -> safe_mult(left, right)
      [] op = "Pow" -> safe_pow(left, right)
      [] op = "LShift" -> safe_lshift(left, right)
      [] op = "Sub" -> IF IsInt(left) /\ IsInt(right)
                       THEN Returns(IntV(left.v[1] - right.v[1]))
                       ELSE Raises("TypeError")
      [] op = "Lt" -> IF IsInt(left) /\ IsInt(right)
                      THEN Returns(BoolV(left.v[1] < right.v[1]))
                      ELSE Raises("TypeError")
      [] op = "And" -> Returns(IF Truthy(left) THEN right ELSE left)
      [] op = "Or" -> Returns(IF Truthy(left) THEN left ELSE right)

\* Whether `except Exception` catches the signal: the Return signal that
\* on_return raises is a control signal outside the ordinary error path.
ReturnIsException == FALSE
IsException(kind) == kind # "Return" \/ ReturnIsException

RECURSIVE run(_, _), run_body(_, _, _), run_list(_, _, _, _),
          module_body(_, _, _), call_keywords(_, _, _, _),
          Function_body(_, _, _), functiondef_defaults(_, _, _, _),
          comp_values(_, _, _, _, _, _), comp_generators(_, _, _, _),
          comp_ifs(_, _, _, _), try_typed(_, _, _, _), try_bare(_, _, _, _),
          loop_body(_, _, _), while_loop(_, _), for_values(_, _, _, _),
          compare_ops(_, _, _, _, _), boolop_values(_, _, _, _)

\* for tnode in block: self.run(tnode)
run_body(block, i, s) ==
    IF i > Len(block) THEN Ok(s, NoneV)
    ELSE LET r == run(block[i], s)
         IN  IF r.exc # "none" THEN r ELSE run_body(block, i + 1, r.s)

\* [self.run(e) for e in nodes]: val is the sequence of the values
run_list(nodes, i, s, acc) ==
    IF i > Len(nodes) THEN Ok(s, acc)
    ELSE LET r == run(nodes[i], s)
         IN  IF r.exc # "none" THEN r
             ELSE run_list(nodes, i + 1, r.s, Append(acc, r.val))

\* Interpreter.on_module (src/asteval/asteval.py:359-365)
module_body(body, i, s) ==
    IF i > Len(body) THEN Ok(s, NoneV)
    ELSE LET r == run(body[i], s)
         IN  IF r.exc = "Return"
             THEN Ok(r.s, IF SameValue(r.val, ReturnedNone) THEN NoneV ELSE r.val)
             ELSE IF r.exc # "none" THEN r
             ELSE module_body(body, i + 1, r.s)

on_module(node, s) == module_body(node.body, 1, s)

\* Interpreter.on_expr
on_expr(node, s) == run(node.value, s)

\* Interpreter.on_return (src/asteval/asteval.py:345-353)
on_return(node, s) ==
    LET r == run(node.value, s)
    IN  IF r.exc # "none" THEN r
        ELSE [s |-> r.s,
              val |-> IF r.val.t # "NoneType" THEN r.val ELSE ReturnedNone,
              exc |-> "Return"]

\* Interpreter.on_pass
on_pass(node, s) == Ok(s, NoReturn)

\* Interpreter.on_num, on_nameconstant
on_num(node, s) == Ok(s, IntV(node.n))
on_nameconstant(node, s) == Ok(s, node.value)

\* Interpreter.on_str
on_str(node, s) == Ok(s, TextV(node.s))

\* Interpreter.on_name (src/asteval/asteval.py:434-436): the repr of a
\* string never starts with '<', so every string read through a name is
\* val.replace(GRAVE, '').  A string the model keeps only the length of
\* stands for one without backticks.
name_value(val) ==
    IF val.t = "str" /\ Len(val.v) = 2
    THEN TextV(SelectSeq(val.v[2], LAMBDA c : c # GRAVE))
    ELSE val

\* Interpreter.on_name, Load context (src/asteval/asteval.py:425-447)
on_name(node, s) ==
    LET frame == find_frame(s, node.id)
    IN  IF frame # 0 THEN Ok(s, name_value(s.frames[frame].symbols[node.id]))
        ELSE raise_exception(s, "NameError")

\* setattr(self.run(node.value), node.attr, val) of node_assign
\* (src/asteval/asteval.py:516-521).  The object is changed in place: it is
\* the Function a name is bound to (no program of the model binds one
\* Function to two names), any other object has no __dict__.
node_setattr(node, val, s) ==
    LET obj == run(node.value, s)
        frame == find_frame(obj.s, node.value.id)
    IN  IF obj.exc # "none" THEN obj
        ELSE IF obj.val.t # "Function" \/ node.value.type # "name"
        THEN Raise(obj.s, "AttributeError")
        ELSE Ok([obj.s EXCEPT !.frames[frame].symbols[node.value.id] =
                     setattr(obj.val, node.attr, val)], NoReturn)

\* Interpreter.node_assign (src/asteval/asteval.py:494-587), for a Name and
\* for an Attribute
node_assign(node, val, s) ==
    IF node.type = "name"
    THEN IF ~valid_symbol_name(node.id) THEN raise_exception(s, "NameError")
         ELSE Ok(set_symbol(s, node.id, val), NoReturn)
    ELSE IF node.type = "attribute"
    THEN IF node.ctx = "Load" THEN raise_exception(s, "AttributeError")
         ELSE node_setattr(node, val, s)
    ELSE Raise(s, "ValueError")

\* Interpreter.on_attribute (src/asteval/asteval.py:589-612): a Store
\* context is refused before anything is evaluated.
on_attribute(node, s) ==
    LET sym == run(node.value, s)
        got == getattr(sym.val, node.attr)
    IN  IF node.ctx = "Store" THEN raise_exception(s, "RuntimeError")
        ELSE IF sym.exc # "none" THEN sym
        ELSE IF node.attr \notin UNSAFE_ATTRS /\ got.exc = "none"
        THEN Ok(sym.s, got.val)
        ELSE LET obj == run(node.value, sym.s)
             IN  IF obj.exc # "none" THEN obj
                 ELSE raise_exception(obj.s, "AttributeError")

\* Interpreter.on_assign
on_assign(node, s) ==
    LET val == run(node.value, s)
    IN  IF val.exc # "none" THEN val
        ELSE node_assign(node.targets[1], val.val, val.s)

\* Interpreter.on_augassign (src/asteval/asteval.py:621-626): the target
\* node itself, in its Store context, is the left operand of the BinOp
on_augassign(node, s) ==
    on_assign(Assign(node.target, BinOp(node.target, node.op, node.value)), s)

\* Interpreter.on_binop
on_binop(node, s) ==
    LET left == run(node.left, s)
        right == run(node.right, left.s)
        ret == op2func(node.op, left.val, right.val)
    IN  IF left.exc # "none" THEN left
        ELSE IF right.exc # "none" THEN right
        ELSE IF ret.exc # "none" THEN Raise(right.s, ret.exc)
        ELSE Ok(right.s, ret.val)

\* Interpreter.on_if
on_if(node, s) ==
    LET test == run(node.test, s)
    IN  IF test.exc # "none" THEN test
        ELSE LET r == run_body(IF Truthy(test.val) THEN node.body ELSE node.orelse,
                               1, test.s)
             IN  IF r.exc # "none" THEN r ELSE Ok(r.s, NoReturn)

\* Interpreter.on_arg
on_arg(node, s) == Ok(s, KeyV(node.arg))

\* Interpreter.print_: writes the objects to the writer
print_(objects, kwargs, s) ==
    IF \E i \in 1..Len(kwargs) : kwargs[i].k.v[1] \notin {"sep", "end"}
    THEN Raise(s, "TypeError")
    ELSE Ok([s EXCEPT !.writer = @ \o objects], NoReturn)

\* the host's range(n)
RangeV(n) == [t |-> "range", v |-> RangeSeq(0, n)]
range(args, kwargs, s) ==
    IF Len(kwargs) = 0 /\ Len(args) = 1 /\ IsInt(args[1])
    THEN Ok(s, RangeV(args[1].v[1]))
    ELSE Raise(s, "TypeError")

\* a binding that checks nothing: the parameters that have a positional
\* value get it
Function_bind_unchecked(fn, args, kwargs, s) ==
    Ok(s, [name \in {fn.argnames[i] : i \in 1..Len(fn.argnames)}
                       \cap {fn.argnames[i] : i \in 1..Len(args)} |->
             args[CHOOSE i \in 1..Len(fn.argnames) : fn.argnames[i] = name]])

\* Function.__call__, the binding of the arguments
\* (src/asteval/function.py:52-100): val is the dict symlocals
Function_bind(fn, args, kwargs, s) ==
    LET n_names == Len(fn.argnames)
        moved == IF Len(args) < n_names /\ Len(kwargs) > 0
                 THEN SelectSeq(SubSeq(fn.argnames, Len(args) + 1, n_names),
                                LAMBDA name : DictHas(kwargs, KeyV(name)))
                 ELSE <<>>
        args1 == args \o [i \in 1..Len(moved) |-> DictGet(kwargs, KeyV(moved[i]))]
        kwargs1 == SelectSeq(kwargs,
                       LAMBDA p : \A i \in 1..Len(moved) : p.k.v[1] # moved[i])
        n_args == Len(args1)
        positional == [name \in {fn.argnames[i] : i \in 1..n_names} |->
                         args1[CHOOSE i \in 1..n_names : fn.argnames[i] = name]]
        rest == SubSeq(args1, n_names + 1, n_args)
        varargs == IF fn.vararg # "" THEN (fn.vararg :> TupleV(rest))
                   ELSE NoSymbols
        defaults == [key \in {fn.kwargs[i].key : i \in 1..Len(fn.kwargs)} |->
                       IF DictHas(kwargs1, KeyV(key)) THEN DictGet(kwargs1, KeyV(key))
                       ELSE fn.kwargs[CHOOSE i \in 1..Len(fn.kwargs) :
                                          fn.kwargs[i].key = key].val]
        kwargs2 == SelectSeq(kwargs1, LAMBDA p :
                       \A i \in 1..Len(fn.kwargs) : p.k.v[1] # fn.kwargs[i].key)
        varkws == IF fn.varkws # "" THEN (fn.varkws :> DictV(kwargs2))
                  ELSE NoSymbols
    IN  IF \E i \in 1..n_names : DictHas(kwargs1, KeyV(fn.argnames[i]))
        THEN raise_exception(s, "TypeError")
        ELSE IF n_args < n_names THEN raise_exception(s, "TypeError")
        ELSE IF n_args > n_names /\ fn.vararg = ""
        THEN raise_exception(s, "TypeError")
        ELSE IF fn.varkws = "" /\ Len(kwargs2) > 0
        THEN raise_exception(s, "TypeError")
        ELSE Ok(s, varkws @@ defaults @@ varargs @@ positional)

\* Function.__call__, the loop over the body
\* (src/asteval/function.py:110-122)
Function_body(body, i, s) ==
    IF i > Len(body) THEN Ok(s, NoneV)
    ELSE LET r == run(body[i], s)
             ret_val == get_current_frame(r.s).retval
         IN  IF r.exc # "none" THEN r
             ELSE IF r.s.error # "None" THEN Ok(r.s, NoneV)
             ELSE IF ret_val.t # "NoneType"
             THEN Ok(r.s, IF SameValue(ret_val, ReturnedNone) THEN NoneV
                          ELSE ret_val)
             ELSE Function_body(body, i + 1, r.s)

\* Function.__call__ (src/asteval/function.py:52-128)
Function_call(fn, args, kwargs, s) ==
    LET b == Function_bind(fn, args, kwargs, s)
        r == Function_body(fn.body, 1,
                 push_frame(enter_module(b.s, fn.mod), Frame(fn.name, b.val)))
    IN  IF b.exc # "none" THEN b
        ELSE [r EXCEPT !.s = leave_module(pop_frame(r.s))]

\* keywords[key.arg] = self.run(key.value), for each keyword of the call
call_keywords(keywords, i, s, acc) ==
    IF i > Len(keywords) THEN Ok(s, acc)
    ELSE LET r == run(keywords[i].value, s)
         IN  IF r.exc # "none" THEN r
             ELSE call_keywords(keywords, i + 1, r.s,
                                DictSet(acc, KeyV(keywords[i].arg), r.val))

\* ret = func(*args, **keywords)
call_func(func, args, keywords, s) ==
    CASE func.t = "Function" -> Function_call(func.v[1], args, keywords, s)
      [] func.t = "builtin" /\ func.v[1] = "print" -> print_(args, keywords, s)
      [] func.t = "builtin" /\ func.v[1] = "range" -> range(args, keywords, s)

\* Interpreter.on_call (src/asteval/asteval.py:926-1011)
on_call(node, s) ==
    LET func == run(node.func, s)
        args == run_list(node.args, 1, func.s, <<>>)
        keywords == call_keywords(node.keywords, 1, args.s, <<>>)
        ret == call_func(func.val, args.val, keywords.val, keywords.s)
    IN  IF func.exc # "none" THEN func
        ELSE IF func.val.t \notin {"Function", "builtin"}
        THEN raise_exception(func.s, "TypeError")
        ELSE IF args.exc # "none" THEN args
        ELSE IF keywords.exc # "none" THEN keywords
        ELSE IF ret.exc # "none" /\ IsException(ret.exc)
        THEN [ret EXCEPT !.s.error = ret.exc]
        ELSE ret

\* Interpreter.on_functiondef, the loop over the defaults
functiondef_defaults(node, idef, s, kwargs) ==
    IF idef > Len(node.defaults) THEN Ok(s, kwargs)
    ELSE LET offset == Len(node.args) - Len(node.defaults)
             defval == run(node.defaults[idef], s)
             keyval == run(node.args[idef + offset], defval.s)
         IN  IF defval.exc # "none" THEN defval
             ELSE IF keyval.exc # "none" THEN keyval
             ELSE functiondef_defaults(node, idef + 1, keyval.s,
                      Append(kwargs, [key |-> keyval.val.v[1], val |-> defval.val]))

\* Interpreter.on_functiondef (src/asteval/asteval.py:1018-1058)
on_functiondef(node, s) ==
    LET kwargs == functiondef_defaults(node, 1, s, <<>>)
        offset == Len(node.args) - Len(node.defaults)
        args == [i \in 1..offset |-> node.args[i].arg]
    IN  IF kwargs.exc # "none" THEN kwargs
        ELSE Ok(set_symbol(kwargs.s, node.name,
                    Function(node.name, kwargs.s.mod_stack[Len(kwargs.s.mod_stack)],
                             node.body, args, kwargs.val, node.vararg, node.kwarg)),
                NoReturn)

\* add = add and self.run(cond), for each cond of the generator
comp_ifs(ifs, j, s, add) ==
    IF j > Len(ifs) THEN Ok(s, add)
    ELSE IF ~Truthy(add) THEN comp_ifs(ifs, j + 1, s, add)
    ELSE LET c == run(ifs[j], s)
         IN  IF c.exc # "none" THEN c ELSE comp_ifs(ifs, j + 1, c.s, c.val)

\* for val in self.run(tnode.iter): ..., from the i-th value on; `out` is
\* the list (the sequence of pairs of the dict) collected so far
comp_values(node, g, items, i, s, out) ==
    IF i > Len(items) THEN comp_generators(node, g + 1, s, out)
    ELSE LET tnode == node.generators[g]
             assigned == node_assign(tnode.target, items[i], s)
             add == comp_ifs(tnode.ifs, 1, assigned.s, BoolV(TRUE))
             elt == run(node.elt, add.s)
             value == run(node.value, add.s)
             key == run(node.key, value.s)
         IN  IF assigned.exc # "none" THEN assigned
             ELSE IF add.exc # "none" THEN add
             ELSE IF ~Truthy(add.val)
             THEN comp_values(node, g, items, i + 1, add.s, out)
             ELSE IF node.type = "listcomp"
             THEN IF elt.exc # "none" THEN elt
                  ELSE comp_values(node, g, items, i + 1, elt.s,
                                   Append(out, elt.val))
             ELSE IF value.exc # "none" THEN value
             ELSE IF key.exc # "none" THEN key
             ELSE IF key.val.t \in {"list", "dict"} THEN Raise(key.s, "TypeError")
             ELSE comp_values(node, g, items, i + 1, key.s,
                              DictSet(out, key.val, value.val))

\* for tnode in node.generators: ..., from the g-th generator on
comp_generators(node, g, s, out) ==
    IF g > Len(node.generators) THEN Ok(s, out)
    ELSE LET iter == run(node.generators[g].iter, s)
         IN  IF iter.exc # "none" THEN iter
             ELSE IF ~IsIterable(iter.val) THEN Raise(iter.s, "TypeError")
             ELSE comp_values(node, g, iter.val.v, 1, iter.s, out)

\* Interpreter.on_listcomp (src/asteval/asteval.py:1079-1095)
on_listcomp(node, s) ==
    LET r == comp_generators(node, 1, push_frame(s, Frame("list_comp", NoSymbols)),
                             <<>>)
    IN  IF r.exc # "none" THEN [r EXCEPT !.s = pop_frame(r.s)]
        ELSE Ok(pop_frame(r.s), ListV(r.val))

\* Interpreter.on_dictcomp (src/asteval/asteval.py:1060-1077)
on_dictcomp(node, s) ==
    LET r == comp_generators(node, 1, push_frame(s, Frame("dict_comp", NoSymbols)),
                             <<>>)
    IN  IF r.exc # "none" THEN [r EXCEPT !.s = pop_frame(r.s)]
        ELSE Ok(pop_frame(r.s), DictV(r.val))

\* Interpreter.on_interrupt, on_break, on_continue: the marker is the node
on_interrupt(node, s) ==
    Ok([s EXCEPT !.interrupt = IF node.type = "break" THEN "Break" ELSE "Continue"],
       [t |-> "ast", v |-> <<node.type>>])
on_break(node, s) == on_interrupt(node, s)
on_continue(node, s) == on_interrupt(node, s)

\* Interpreter.on_excepthandler
on_excepthandler(node, s) ==
    LET r == run_body(node.body, 1, s)
    IN  IF r.exc # "none" THEN r ELSE Ok(r.s, NoReturn)

\* the exception classes of the host that the programs name, and
\* isinstance(exc, builtins.get(id)) for an exception of kind `kind`
BuiltinExceptions ==
    {"Exception", "ArithmeticError", "AttributeError", "LookupError",
     "NameError", "NotImplementedError", "RuntimeError", "SyntaxError",
     "TypeError", "ValueError", "ZeroDivisionError"}
ExceptionBases(kind) ==
    CASE kind = "NotImplementedError" -> {kind, "RuntimeError", "Exception"}
      [] kind = "ZeroDivisionError" -> {kind, "ArithmeticError", "Exception"}
      [] OTHER -> {kind, "Exception"}
ExceptionV(kind) == [t |-> "exception", v |-> <<kind>>]

\* Interpreter.on_try, a handler that was picked: bind its name, run it,
\* found = True (src/asteval/asteval.py:858-861, 889-892)
try_found(r) == IF r.exc # "none" THEN r ELSE Ok(r.s, BoolV(TRUE))
\* a handler run without the exception bound to its name
try_handler_unnamed(hnd, exc, s) == try_found(run(hnd, s))
try_handler(hnd, exc, s) ==
    LET named == IF hnd.name = "" THEN Ok(s, NoReturn)
                 ELSE node_assign(Name(hnd.name), ExceptionV(exc), s)
    IN  IF named.exc # "none" THEN named ELSE try_found(run(hnd, named.s))

\* Interpreter.on_try, the search among the typed handlers, inside the
\* except clause of the body (src/asteval/asteval.py:855-874); val is found.
\* A handler typed by a tuple of names is not among the programs.
try_typed(handlers, h, exc, s) ==
    IF h > Len(handlers) THEN Ok(s, BoolV(FALSE))
    ELSE IF handlers[h].etype = "" THEN try_typed(handlers, h + 1, exc, s)
    ELSE IF handlers[h].etype \notin BuiltinExceptions THEN Raise(s, "TypeError")
    ELSE IF handlers[h].etype \notin ExceptionBases(exc)
    THEN try_typed(handlers, h + 1, exc, s)
    ELSE try_handler(handlers[h], exc, s)

\* Interpreter.on_try, the bare except (src/asteval/asteval.py:883-893)
try_bare(handlers, h, exc, s) ==
    IF h > Len(handlers) THEN Ok(s, BoolV(FALSE))
    ELSE IF handlers[h].etype # "" THEN try_bare(handlers, h + 1, exc, s)
    ELSE try_handler(handlers[h], exc, s)

\* Interpreter.on_try, the finally block and the re-raise of an exception
\* no handler was found for (src/asteval/asteval.py:895-905)
try_finally(node, s, unhandled, exc) ==
    LET f == run_body(node.finalbody, 1, s)
    IN  IF f.exc # "none" THEN f
        ELSE IF unhandled THEN Raise([f.s EXCEPT !.error = exc], exc)
        ELSE Ok(f.s, NoReturn)

try_after_bare(node, exc, b) ==
    IF b.exc # "none" THEN b
    ELSE try_finally(node, b.s, ~Truthy(b.val), exc)

try_after_typed(node, exc, found) ==
    IF found.exc # "none" THEN found
    ELSE IF Truthy(found.val) THEN try_finally(node, found.s, FALSE, exc)
    ELSE try_after_bare(node, exc, try_bare(node.handlers, 1, exc, found.s))

\* Interpreter.on_try, the else block (src/asteval/asteval.py:878-881)
try_else(node, s) ==
    LET e == run_body(node.orelse, 1, s)
    IN  IF e.exc # "none" THEN e ELSE try_finally(node, e.s, FALSE, "none")

\* Interpreter.on_try, after the body: `except Exception` takes what the
\* first failing statement raised (src/asteval/asteval.py:845-876)
try_after_body(node, b) ==
    IF b.exc = "none" THEN try_else(node, b.s)
    ELSE IF ~IsException(b.exc) THEN b
    ELSE try_after_typed(node, b.exc,
             try_typed(node.handlers, 1, b.exc, [b.s EXCEPT !.error = "None"]))

\* Interpreter.on_try (src/asteval/asteval.py:841-905)
on_try(node, s) == try_after_body(node, run_body(node.body, 1, s))

\* for tnode in node.body: self.run(tnode); if self._interrupt is not None:
\* break
loop_body(body, i, s) ==
    IF i > Len(body) THEN Ok(s, NoneV)
    ELSE LET r == run(body[i], s)
         IN  IF r.exc # "none" THEN r
             ELSE IF r.s.interrupt # "None" THEN Ok(r.s, NoneV)
             ELSE loop_body(body, i + 1, r.s)

\* an end of the loops that leaves the marker as it is
loop_end_keep(s) == Ok(s, NoReturn)

\* the end of on_while and on_for: self._interrupt = None; return NoReturn
loop_end(s) == Ok([s EXCEPT !.interrupt = "None"], NoReturn)

\* the else block of a loop that ended without break
loop_else(node, s) ==
    LET e == run_body(node.orelse, 1, s)
    IN  IF e.exc # "none" THEN e ELSE loop_end(e.s)

\* Interpreter.on_while (src/asteval/asteval.py:780-805)
while_body(node, b) ==
    IF b.exc # "none" THEN b
    ELSE IF b.s.interrupt = "Break" THEN loop_end(b.s)
    ELSE while_loop(node, b.s)

while_loop(node, s) ==
    LET test == run(node.test, s)
    IN  IF test.exc # "none" THEN test
        ELSE IF ~Truthy(test.val) THEN loop_else(node, test.s)
        ELSE while_body(node, loop_body(node.body, 1,
                                        [test.s EXCEPT !.interrupt = "None"]))

on_while(node, s) == while_loop(node, s)

\* Interpreter.on_for (src/asteval/asteval.py:807-832), from the i-th value
for_body(node, items, i, b) ==
    IF b.exc # "none" THEN b
    ELSE IF b.s.interrupt = "Break" THEN loop_end(b.s)
    ELSE for_values(node, items, i + 1, b.s)

for_values(node, items, i, s) ==
    IF i > Len(items) THEN loop_else(node, s)
    ELSE LET assigned == node_assign(node.target, items[i], s)
         IN  IF assigned.exc # "none" THEN assigned
             ELSE for_body(node, items, i,
                           loop_body(node.body, 1,
                                     [assigned.s EXCEPT !.interrupt = "None"]))

on_for(node, s) ==
    LET iter == run(node.iter, s)
    IN  IF iter.exc # "none" THEN iter
        ELSE IF ~IsIterable(iter.val) THEN Raise(iter.s, "TypeError")
        ELSE for_values(node, iter.val.v, 1, iter.s)

\* a comparison that goes on after a false result
compare_ops_no_stop(node, i, lval, s, out) ==
    IF i > Len(node.ops) THEN Ok(s, out)
    ELSE LET rval == run(node.comparators[i], s)
             res == op2func(node.ops[i], lval, rval.val)
         IN  IF rval.exc # "none" THEN rval
             ELSE IF res.exc # "none" THEN Raise(rval.s, res.exc)
             ELSE compare_ops(node, i + 1, rval.val, rval.s, res.val)

\* Interpreter.on_compare (src/asteval/asteval.py:730-744), from the i-th
\* operator on
compare_ops(node, i, lval, s, out) ==
    IF i > Len(node.ops) THEN Ok(s, out)
    ELSE LET rval == run(node.comparators[i], s)
             res == op2func(node.ops[i], lval, rval.val)
         IN  IF rval.exc # "none" THEN rval
             ELSE IF res.exc # "none" THEN Raise(rval.s, res.exc)
             ELSE IF ~Truthy(res.val) THEN Ok(rval.s, res.val)
             ELSE compare_ops(node, i + 1, rval.val, rval.s, res.val)

on_compare(node, s) ==
    LET lval == run(node.left, s)
    IN  IF lval.exc # "none" THEN lval
        ELSE compare_ops(node, 1, lval.val, lval.s, BoolV(TRUE))

\* whether val leaves the outcome of the and / or open
undecided(op, val) == IF op = "And" THEN Truthy(val) ELSE ~Truthy(val)

\* Interpreter.on_boolop (src/asteval/asteval.py:717-728), the loop from the
\* i-th operand on
boolop_values(node, i, val, s) ==
    IF i > Len(node.values) THEN Ok(s, val)
    ELSE LET r == run(node.values[i], s)
             res == op2func(node.op, val, r.val)
         IN  IF r.exc # "none" THEN r
             ELSE IF ~undecided(node.op, res.val) THEN Ok(r.s, res.val)
             ELSE boolop_values(node, i + 1, res.val, r.s)

on_boolop(node, s) ==
    LET val == run(node.values[1], s)
    IN  IF val.exc # "none" THEN val
        ELSE IF undecided(node.op, val.val)
        THEN boolop_values(node, 2, val.val, val.s)
        ELSE val

\* handler = self.node_handlers[...]; ret = handler(node)
handler(node, s) ==
    CASE node.type = "module" -> on_module(node, s)
      [] node.type = "expr" -> on_expr(node, s)
      [] node.type = "return" -> on_return(node, s)
      [] node.type = "pass" -> on_pass(node, s)
      [] node.type = "num" -> on_num(node, s)
      [] node.type = "str" -> on_str(node, s)
      [] node.type = "nameconstant" -> on_nameconstant(node, s)
      [] node.type = "name" -> on_name(node, s)
      [] node.type = "attribute" -> on_attribute(node, s)
      [] node.type = "assign" -> on_assign(node, s)
      [] node.type = "augassign" -> on_augassign(node, s)
      [] node.type = "binop" -> on_binop(node, s)
      [] node.type = "if" -> on_if(node, s)
      [] node.type = "call" -> on_call(node, s)
      [] node.type = "arg" -> on_arg(node, s)
      [] node.type = "functiondef" -> on_functiondef(node, s)
      [] node.type = "listcomp" -> on_listcomp(node, s)
      [] node.type = "dictcomp" -> on_dictcomp(node, s)
      [] node.type = "try" -> on_try(node, s)
      [] node.type = "excepthandler" -> on_excepthandler(node, s)
      [] node.type = "while" -> on_while(node, s)
      [] node.type = "for" -> on_for(node, s)
      [] node.type = "break" -> on_break(node, s)
      [] node.type = "continue" -> on_continue(node, s)
      [] node.type = "compare" -> on_compare(node, s)
      [] node.type = "boolop" -> on_boolop(node, s)

\* Interpreter.run, the end: an Empty result is None
run_ret(ret) ==
    IF ret.exc = "none" /\ ret.val.t = "Empty" THEN Ok(ret.s, NoneV) ELSE ret

\* a run without the limit on the cycles
run_node_unlimited(node, s) ==
    IF s.error # "None" THEN Ok(s, NoneV)
    ELSE IF node.type = "none" THEN Ok(s, NoneV)
    ELSE IF node.type \notin supported_nodes THEN unimplemented(s)
    ELSE run_ret(handler(node, s))

\* Interpreter.run, after the count of the cycle
run_node(node, s) ==
    IF s.cycles > s.max_cycles THEN Raise(s, "RuntimeError")
    ELSE IF s.error # "None" THEN Ok(s, NoneV)
    ELSE IF node.type = "none" THEN Ok(s, NoneV)
    ELSE IF node.type \notin supported_nodes THEN unimplemented(s)
    ELSE run_ret(handler(node, s))

\* Interpreter.run (src/asteval/asteval.py:272-327).  s.timeout is the
\* number of run calls after which the host's clock is past max_time.
run(node, s) ==
    IF s.cycles >= s.timeout THEN Raise(s, "RuntimeError")
    ELSE run_node(node, [s EXCEPT !.cycles = @ + 1])

\* Interpreter.eval (src/asteval/asteval.py:255-265): the outcome the host
\* sees, with the interpreter it leaves behind
eval_ret(ret) ==
    IF ret.exc = "none" /\ ret.s.error # "None"
    THEN Raise(ret.s, "AttributeError")
    ELSE ret

eval(node, s) == eval_ret(run(node, [s EXCEPT !.error = "None", !.cycles = 0]))

(***************************************************************************)
(* src/lib/asteval.py: the Interpreter of the flat-namespace library.  Its *)
(* state is [symtable, error, retval, interrupt, writer]; its programs are *)
(* the trees of the Python it was written for (True and range are names of *)
(* the symbol table, range builds a list, a parameter is a Name in Param   *)
(* context, here the node arg(name)).                                      *)
(***************************************************************************)
lib_supported_nodes ==
    {"assert", "assign", "attribute", "augassign", "binop", "boolop",
     "break", "call", "compare", "continue", "delete", "dict", "ellipsis",
     "excepthandler", "expr", "expression", "extslice", "for",
     "functiondef", "if", "ifexp", "index", "interrupt", "list",
     "listcomp", "module", "name", "arg", "num", "pass", "print", "raise",
     "repr", "return", "slice", "str", "subscript", "tryexcept", "tuple",
     "unaryop", "while"}

\* Procedure.__init__
Procedure(name, body, args, kwargs, vararg, varkws) ==
    [t |-> "Procedure",
     v |-> <<[name |-> name, body |-> body, argnames |-> args,
              kwargs |-> kwargs, vararg |-> vararg, varkws |-> varkws]>>]

\* Interpreter.raise_exception (src/lib/asteval.py:101-115)
lib_raise_exception(s, msg) ==
    Raise([s EXCEPT !.error = Append(@, msg), !.interrupt = "break"],
          "RuntimeError")

\* Interpreter.unimplemented
lib_unimplemented(s) == lib_raise_exception(s, "not supported")

RECURSIVE lib_run(_, _), lib_run_list(_, _, _, _), lib_module_body(_, _, _, _),
          lib_if_body(_, _, _), lib_call_keywords(_, _, _, _),
          lib_Procedure_body(_, _, _), lib_functiondef_defaults(_, _, _, _),
          lib_surplus(_, _, _, _),
          lib_listcomp_values(_, _, _, _, _, _),
          lib_listcomp_generators(_, _, _, _), lib_listcomp_ifs(_, _, _, _),
          lib_boolop_values(_, _, _, _)

\* [self.run(e) for e in nodes]
lib_run_list(nodes, i, s, acc) ==
    IF i > Len(nodes) THEN Ok(s, acc)
    ELSE LET r == lib_run(nodes[i], s)
         IN  IF r.exc # "none" THEN r
             ELSE lib_run_list(nodes, i + 1, r.s, Append(acc, r.val))

\* Interpreter.on_module (src/lib/asteval.py:213-218)
lib_module_body(body, i, s, out) ==
    IF i > Len(body) THEN Ok(s, out)
    ELSE LET r == lib_run(body[i], s)
         IN  IF r.exc # "none" THEN r
             ELSE lib_module_body(body, i + 1, r.s, r.val)

lib_on_module(node, s) == lib_module_body(node.body, 1, s, NoneV)

\* Interpreter.on_expr
lib_on_expr(node, s) == lib_run(node.value, s)

\* Interpreter.on_return (src/lib/asteval.py:204-207)
lib_on_return(node, s) ==
    LET r == lib_run(node.value, s)
    IN  IF r.exc # "none" THEN r
        ELSE Ok([r.s EXCEPT !.retval = r.val], NoneV)

\* Interpreter.on_pass, on_num
lib_on_pass(node, s) == Ok(s, NoneV)
lib_on_num(node, s) == Ok(s, IntV(node.n))

\* Interpreter.on_str
lib_on_str(node, s) == Ok(s, TextV(node.s))

\* Interpreter.on_name (src/lib/asteval.py:273-285)
lib_on_name(node, s) ==
    IF node.type = "arg" THEN Ok(s, KeyV(node.arg))
    ELSE IF node.id \in DOMAIN s.symtable THEN Ok(s, s.symtable[node.id])
    ELSE lib_raise_exception(s, "cannot find symbol")

\* Interpreter.node_assign (src/lib/asteval.py:287-319), for a Name
lib_node_assign(node, val, s) ==
    IF Len(s.error) > 0 THEN Ok(s, NoneV)
    ELSE IF node.type = "name"
    THEN IF ~valid_symbol_name(node.id)
         THEN lib_raise_exception(s, "invalid symbol name")
         ELSE Ok([s EXCEPT !.symtable = (node.id :> val) @@ @], NoneV)
    ELSE Raise(s, "ValueError")

\* Interpreter.on_attribute, Load context (src/lib/asteval.py:321-338)
lib_on_attribute(node, s) ==
    LET sym == lib_run(node.value, s)
        obj == lib_run(node.value, sym.s)
    IN  IF sym.exc # "none" THEN sym
        ELSE IF HasAttr(sym.val, node.attr)
        THEN Ok(sym.s, getattr(sym.val, node.attr).val)
        ELSE IF obj.exc # "none" THEN obj
        ELSE lib_raise_exception(obj.s, "does not have attribute")

\* Interpreter.on_assign
lib_on_assign(node, s) ==
    LET val == lib_run(node.value, s)
    IN  IF val.exc # "none" THEN val
        ELSE IF Len(val.s.error) > 0 THEN Ok(val.s, NoneV)
        ELSE lib_node_assign(node.targets[1], val.val, val.s)

\* Interpreter.on_binop
lib_on_binop(node, s) ==
    LET left == lib_run(node.left, s)
        right == lib_run(node.right, left.s)
        ret == op2func(node.op, left.val, right.val)
    IN  IF left.exc # "none" THEN left
        ELSE IF right.exc # "none" THEN right
        ELSE IF ret.exc # "none" THEN Raise(right.s, ret.exc)
        ELSE Ok(right.s, ret.val)

\* Interpreter.on_if (src/lib/asteval.py:443-449)
lib_if_body(block, i, s) ==
    IF i > Len(block) THEN Ok(s, NoneV)
    ELSE LET r == lib_run(block[i], s)
         IN  IF r.exc # "none" THEN r ELSE lib_if_body(block, i + 1, r.s)

lib_on_if(node, s) ==
    LET test == lib_run(node.test, s)
    IN  IF test.exc # "none" THEN test
        ELSE lib_if_body(IF Truthy(test.val) THEN node.body ELSE node.orelse,
                         1, test.s)

\* Procedure.__call__: kwargs[t_a] = t_kw[1] for the surplus positional
\* arguments zipped with the defaults (src/lib/asteval.py:653-661)
lib_surplus(args, defaults, i, kwargs) ==
    IF i > Len(args) \/ i > Len(defaults) THEN Returns(kwargs)
    ELSE IF DictHas(kwargs, KeyV(defaults[i].key)) THEN Raises("RuntimeError")
    ELSE IF args[i].t \in {"list", "dict"} THEN Raises("TypeError")
    ELSE lib_surplus(args, defaults, i + 1,
                     DictSet(kwargs, args[i], defaults[i].val))

\* Procedure.__call__, the binding of the arguments
\* (src/lib/asteval.py:635-685): val is the dict symlocals
Procedure_bind(fn, args, kwargs, s) ==
    LET n_names == Len(fn.argnames)
        positional == [name \in {fn.argnames[i] : i \in 1..n_names} |->
                         args[CHOOSE i \in 1..n_names : fn.argnames[i] = name]]
        rest == SubSeq(args, n_names + 1, Len(args))
        kwargs1 == lib_surplus(rest, fn.kwargs, 1, kwargs)
        varargs == IF fn.vararg # "" THEN (fn.vararg :> TupleV(rest))
                   ELSE NoSymbols
        defaults == [key \in {fn.kwargs[i].key : i \in 1..Len(fn.kwargs)} |->
                       IF DictHas(kwargs1.val, KeyV(key))
                       THEN DictGet(kwargs1.val, KeyV(key))
                       ELSE fn.kwargs[CHOOSE i \in 1..Len(fn.kwargs) :
                                          fn.kwargs[i].key = key].val]
        kwargs2 == SelectSeq(kwargs1.val, LAMBDA p :
                       \A i \in 1..Len(fn.kwargs) :
                           ~SameValue(p.k, KeyV(fn.kwargs[i].key)))
        varkws == IF fn.varkws # "" THEN (fn.varkws :> DictV(kwargs2))
                  ELSE NoSymbols
    IN  IF Len(args) < n_names THEN Raise(s, "TypeError")
        ELSE IF kwargs1.exc # "none" THEN Raise(s, "TypeError")
        ELSE IF fn.varkws = "" /\ Len(kwargs2) > 0 THEN Raise(s, "TypeError")
        ELSE Ok(s, varkws @@ defaults @@ varargs @@ positional)

\* Procedure.__call__, the loop over the body (src/lib/asteval.py:692-699)
lib_Procedure_body(body, i, s) ==
    IF i > Len(body) THEN Ok(s, NoneV)
    ELSE LET r == lib_run(body[i], s)
         IN  IF r.exc # "none" THEN r
             ELSE IF Len(r.s.error) > 0 THEN Ok(r.s, NoneV)
             ELSE IF r.s.retval.t # "NoneType" THEN Ok(r.s, r.s.retval)
             ELSE lib_Procedure_body(body, i + 1, r.s)

\* Procedure.__call__ (src/lib/asteval.py:635-703)
Procedure_call(fn, args, kwargs, s) ==
    LET b == Procedure_bind(fn, args, kwargs, s)
        save_symtable == b.s.symtable
        r == lib_Procedure_body(fn.body, 1,
                 [b.s EXCEPT !.symtable = b.val @@ @, !.retval = NoneV])
    IN  IF b.exc # "none" THEN b
        ELSE IF r.exc # "none" THEN r
        ELSE Ok([r.s EXCEPT !.symtable = save_symtable], r.val)

\* keywords[key.arg] = self.run(key.value), for each keyword of the call
lib_call_keywords(keywords, i, s, acc) ==
    IF i > Len(keywords) THEN Ok(s, acc)
    ELSE LET r == lib_run(keywords[i].value, s)
         IN  IF r.exc # "none" THEN r
             ELSE lib_call_keywords(keywords, i + 1, r.s,
                                    DictSet(acc, KeyV(keywords[i].arg), r.val))

\* the host's range(n), which builds a list
lib_range(args, kwargs, s) ==
    IF Len(kwargs) = 0 /\ Len(args) = 1 /\ IsInt(args[1])
    THEN Ok(s, ListV(RangeSeq(0, args[1].v[1])))
    ELSE Raise(s, "TypeError")

\* func(*args, **keywords)
lib_call_func(func, args, keywords, s) ==
    CASE func.t = "Procedure" -> Procedure_call(func.v[1], args, keywords, s)
      [] func.t = "builtin" /\ func.v[1] = "range" -> lib_range(args, keywords, s)
      [] OTHER -> Raise(s, "TypeError")

\* Interpreter.on_call (src/lib/asteval.py:543-568)
lib_on_call(node, s) ==
    LET func == lib_run(node.func, s)
        args == lib_run_list(node.args, 1, func.s, <<>>)
        keywords == lib_call_keywords(node.keywords, 1, args.s, <<>>)
        ret == lib_call_func(func.val, args.val, keywords.val, keywords.s)
    IN  IF func.exc # "none" THEN func
        ELSE IF args.exc # "none" THEN args
        ELSE IF keywords.exc # "none" THEN keywords
        ELSE IF ret.exc # "none" THEN lib_raise_exception(ret.s, "Error running")
        ELSE ret

\* Interpreter.on_functiondef, the loop over the defaults
lib_functiondef_defaults(node, idef, s, kwargs) ==
    IF idef > Len(node.defaults) THEN Ok(s, kwargs)
    ELSE LET offset == Len(node.args) - Len(node.defaults)
             defval == lib_run(node.defaults[idef], s)
             keyval == lib_run(node.args[idef + offset], defval.s)
         IN  IF defval.exc # "none" THEN defval
             ELSE IF keyval.exc # "none" THEN keyval
             ELSE lib_functiondef_defaults(node, idef + 1, keyval.s,
                      Append(kwargs, [key |-> keyval.val.v[1], val |-> defval.val]))

\* Interpreter.on_functiondef (src/lib/asteval.py:570-594)
lib_on_functiondef(node, s) ==
    LET kwargs == lib_functiondef_defaults(node, 1, s, <<>>)
        offset == Len(node.args) - Len(node.defaults)
        args == [i \in 1..offset |-> node.args[i].arg]
    IN  IF kwargs.exc # "none" THEN kwargs
        ELSE Ok([kwargs.s EXCEPT !.symtable =
                    (node.name :> Procedure(node.name, node.body, args,
                                            kwargs.val, node.vararg, node.kwarg))
                    @@ @],
                NoneV)

\* add = add and self.run(cond), for each cond of the generator
lib_listcomp_ifs(ifs, j, s, add) ==
    IF j > Len(ifs) THEN Ok(s, add)
    ELSE IF ~Truthy(add) THEN lib_listcomp_ifs(ifs, j + 1, s, add)
    ELSE LET c == lib_run(ifs[j], s)
         IN  IF c.exc # "none" THEN c
             ELSE lib_listcomp_ifs(ifs, j + 1, c.s, c.val)

\* for val in self.run(tnode.iter): ..., from the i-th value on; val is
\* NoneV for the bare `return` after a failed assignment
lib_listcomp_values(node, g, items, i, s, out) ==
    IF i > Len(items) THEN lib_listcomp_generators(node, g + 1, s, out)
    ELSE LET tnode == node.generators[g]
             assigned == lib_node_assign(tnode.target, items[i], s)
             add == lib_listcomp_ifs(tnode.ifs, 1, assigned.s, BoolV(TRUE))
             elt == lib_run(node.elt, add.s)
         IN  IF assigned.exc # "none" THEN assigned
             ELSE IF Len(assigned.s.error) > 0 THEN Ok(assigned.s, NoneV)
             ELSE IF add.exc # "none" THEN add
             ELSE IF ~Truthy(add.val)
             THEN lib_listcomp_values(node, g, items, i + 1, add.s, out)
             ELSE IF elt.exc # "none" THEN elt
             ELSE lib_listcomp_values(node, g, items, i + 1, elt.s,
                                      Append(out, elt.val))

\* for tnode in node.generators: ..., from the g-th generator on
lib_listcomp_generators(node, g, s, out) ==
    IF g > Len(node.generators) THEN Ok(s, ListV(out))
    ELSE LET iter == lib_run(node.generators[g].iter, s)
         IN  IF iter.exc # "none" THEN iter
             ELSE IF ~IsIterable(iter.val) THEN Raise(iter.s, "TypeError")
             ELSE lib_listcomp_values(node, g, iter.val.v, 1, iter.s, out)

\* Interpreter.on_listcomp (src/lib/asteval.py:493-507)
lib_on_listcomp(node, s) == lib_listcomp_generators(node, 1, s, <<>>)

\* handler = self.node_handlers[...]; ret = handler(node)
\* Interpreter.on_boolop (src/lib/asteval.py:407-416), the loop from the
\* i-th operand on
lib_boolop_values(node, i, val, s) ==
    IF i > Len(node.values) THEN Ok(s, val)
    ELSE LET r == lib_run(node.values[i], s)
             res == op2func(node.op, val, r.val)
         IN  IF r.exc # "none" THEN r
             ELSE IF ~undecided(node.op, res.val) THEN Ok(r.s, res.val)
             ELSE lib_boolop_values(node, i + 1, res.val, r.s)

lib_on_boolop(node, s) ==
    LET val == lib_run(node.values[1], s)
    IN  IF val.exc # "none" THEN val
        ELSE IF undecided(node.op, val.val)
        THEN lib_boolop_values(node, 1, val.val, val.s)
        ELSE val

\* Interpreter.on_print (src/lib/asteval.py:432-441), dest the writer
lib_on_print(node, s) ==
    LET dest == lib_run(node.dest, s)
        out == lib_run_list(node.values, 1, dest.s, <<>>)
    IN  IF dest.exc # "none" THEN dest
        ELSE IF out.exc # "none" THEN out
        ELSE IF Len(out.val) > 0 /\ Len(out.s.error) = 0
        THEN Ok([out.s EXCEPT !.writer = @ \o out.val], NoneV)
        ELSE Ok(out.s, NoneV)

lib_handler(node, s) ==
    CASE node.type = "module" -> lib_on_module(node, s)
      [] node.type = "expr" -> lib_on_expr(node, s)
      [] node.type = "return" -> lib_on_return(node, s)
      [] node.type = "pass" -> lib_on_pass(node, s)
      [] node.type = "num" -> lib_on_num(node, s)
      [] node.type = "str" -> lib_on_str(node, s)
      [] node.type \in {"name", "arg"} -> lib_on_name(node, s)
      [] node.type = "attribute" -> lib_on_attribute(node, s)
      [] node.type = "assign" -> lib_on_assign(node, s)
      [] node.type = "binop" -> lib_on_binop(node, s)
      [] node.type = "if" -> lib_on_if(node, s)
      [] node.type = "call" -> lib_on_call(node, s)
      [] node.type = "functiondef" -> lib_on_functiondef(node, s)
      [] node.type = "listcomp" -> lib_on_listcomp(node, s)
      [] node.type = "boolop" -> lib_on_boolop(node, s)
      [] node.type = "print" -> lib_on_print(node, s)

\* Interpreter.run (src/lib/asteval.py:129-159)
lib_run_ret(ret) ==
    IF ret.exc # "none" THEN lib_raise_exception(ret.s, "Runtime Error")
    ELSE ret

lib_run(node, s) ==
    IF node.type = "none" THEN Ok(s, NoneV)
    ELSE IF node.type \notin lib_supported_nodes THEN lib_unimplemented(s)
    ELSE lib_run_ret(lib_handler(node, s))

\* what the eval of the library prints when the run fails
ErrorReport(msg) == [t |-> "error", v |-> <<msg>>]

\* Interpreter.eval (src/lib/asteval.py:164-189), show_errors=True
lib_eval_ret(ret) ==
    IF ret.exc # "none"
    THEN Ok([ret.s EXCEPT !.writer = Append(@, ErrorReport(ret.s.error[1]))],
            NoneV)
    ELSE ret

lib_eval(node, s) == lib_eval_ret(lib_run(node, [s EXCEPT !.error = <<>>]))

(***************************************************************************)
(* The programs the host evaluates: the text, and the tree ast.parse makes *)
(* of it.                                                                  *)
(***************************************************************************)
Program(text, body) == [text |-> text, node |-> Module(body)]
True == NameConstant(BoolV(TRUE))
None == NameConstant(NoneV)
Call1(name, args) == Call(Name(name), args, <<>>)

print_1 == <<Expr(Call1("print", <<Num(1)>>))>>
print_2 == Expr(Call1("print", <<Num(2)>>))
print_n(n) == Expr(Call1("print", <<Num(n)>>))
print_val(node) == Expr(Call1("print", <<node>>))

\* an augmented assignment and the plain assignment it abbreviates, to a
\* name and to an attribute of a function; each prints the target before and
\* after
AugName ==
    Program("x = 42\nprint(x)\nx -= 1\nprint(x)",
            <<Assign(Name("x"), Num(42)), print_val(Name("x")),
              AugAssign(Name("x"), "Sub", Num(1)), print_val(Name("x"))>>)
PlainName ==
    Program("x = 42\nprint(x)\nx = x - 1\nprint(x)",
            <<Assign(Name("x"), Num(42)), print_val(Name("x")),
              Assign(Name("x"), BinOp(Name("x"), "Sub", Num(1))),
              print_val(Name("x"))>>)
AugAttribute ==
    Program("def foo():\n    return 42\nfoo.n = 3\nprint(foo.n)\nfoo.n -= 1\nprint(foo.n)",
            <<FunctionDef("foo", <<>>, <<>>, <<Return(Num(42))>>),
              Assign(AttributeStore(Name("foo"), "n"), Num(3)),
              print_val(Attribute(Name("foo"), "n")),
              AugAssign(AttributeStore(Name("foo"), "n"), "Sub", Num(1)),
              print_val(Attribute(Name("foo"), "n"))>>)
PlainAttribute ==
    Program("def foo():\n    return 42\nfoo.n = 3\nprint(foo.n)\nfoo.n = foo.n - 1\nprint(foo.n)",
            <<FunctionDef("foo", <<>>, <<>>, <<Return(Num(42))>>),
              Assign(AttributeStore(Name("foo"), "n"), Num(3)),
              print_val(Attribute(Name("foo"), "n")),
              Assign(AttributeStore(Name("foo"), "n"),
                     BinOp(Attribute(Name("foo"), "n"), "Sub", Num(1))),
              print_val(Attribute(Name("foo"), "n"))>>)
AugPlain == {<<AugName, PlainName>>, <<AugAttribute, PlainAttribute>>}

\* a loop whose body is a try statement that leaves the loop from a nested
\* `if` and then prints the loop variable
BreakInTry ==
    Program("for i in range(2):\n    try:\n        if i:\n            break\n        print(i)\n    except Exception:\n        pass\nprint(5)",
            <<For(Name("i"), Call1("range", <<Num(2)>>),
                  <<Try(<<If(Name("i"), <<Break>>, <<>>), print_val(Name("i"))>>,
                        <<ExceptHandler("Exception", "", <<Pass>>)>>,
                        <<>>, <<>>)>>,
                  <<>>),
              print_n(5)>>)

\* a procedure that reads a global name and a name only its caller binds
CallerLocals ==
    Program("x = 42\ndef inner():\n    print(x)\n    print(v)\ndef outer():\n    v = 1\n    inner()\nouter()",
            <<Assign(Name("x"), Num(42)),
              FunctionDef("inner", <<>>, <<>>,
                          <<print_val(Name("x")), print_val(Name("v"))>>),
              FunctionDef("outer", <<>>, <<>>,
                          <<Assign(Name("v"), Num(1)), Expr(Call1("inner", <<>>))>>),
              Expr(Call1("outer", <<>>))>>)

Programs ==
    {Program("x = 42\nx", <<Assign(Name("x"), Num(42)), Expr(Name("x"))>>),
     Program("True", <<Expr(True)>>),
     Program("return x.real", <<Return(Attribute(Name("x"), "real"))>>),
     Program("x.__class__", <<Expr(Attribute(Name("x"), "__class__"))>>),
     Program("return x.__doc__", <<Return(Attribute(Name("x"), "__doc__"))>>),
     Program("x.nothing", <<Expr(Attribute(Name("x"), "nothing"))>>),
     Program("return 5\nx = 1", <<Return(Num(5)), Assign(Name("x"), Num(1))>>),
     Program("def foo():\n    return 42\nfoo()",
             <<FunctionDef("foo", <<>>, <<>>, <<Return(Num(42))>>),
               Expr(Call1("foo", <<>>))>>),
     Program("def g():\n    if True:\n        return None\n    return 7\ny = g()\nz = 3",
             <<FunctionDef("g", <<>>, <<>>,
                           <<If(True, <<Return(None)>>, <<>>), Return(Num(7))>>),
               Assign(Name("y"), Call1("g", <<>>)),
               Assign(Name("z"), Num(3))>>),
     Program("def h(a, b=2):\n    x = a + b\n    i = a",
             <<FunctionDef("h", <<"a", "b">>, <<Num(2)>>,
                           <<Assign(Name("x"), BinOp(Name("a"), "Add", Name("b"))),
                             Assign(Name("i"), Name("a"))>>)>>),
     Program("h(5)", <<Expr(Call1("h", <<Num(5)>>))>>),
     Program("h(b=1, a=2)",
             <<Expr(Call(Name("h"), <<>>,
                         <<keyword("b", Num(1)), keyword("a", Num(2))>>))>>),
     Program("h(1, 2, 3)", <<Expr(Call1("h", <<Num(1), Num(2), Num(3)>>))>>),
     Program("i = 99", <<Assign(Name("i"), Num(99))>>),
     Program("[i for i in range(3) if i]",
             <<Expr(ListComp(Name("i"),
                   <<comprehension(Name("i"), Call1("range", <<Num(3)>>),
                                   <<Name("i")>>)>>))>>),
     Program("{i: x for i in range(2)}",
             <<Expr(DictComp(Name("i"), Name("x"),
                   <<comprehension(Name("i"), Call1("range", <<Num(2)>>),
                                   <<>>)>>))>>),
     Program("[i + None for i in range(3)]",
             <<Expr(ListComp(BinOp(Name("i"), "Add", None),
                   <<comprehension(Name("i"), Call1("range", <<Num(3)>>),
                                   <<>>)>>))>>),
     Program("print(x)", <<Expr(Call1("print", <<Name("x")>>))>>),
     Program("exec = 1", <<Assign(Name("exec"), Num(1))>>),
     Program("lambda: 1", <<Expr(Lambda)>>),
     Program("return [i + i + j for i in range(2) for j in range(2)]",
             <<Return(ListComp(BinOp(BinOp(Name("i"), "Add", Name("i")),
                                     "Add", Name("j")),
                   <<comprehension(Name("i"), Call1("range", <<Num(2)>>), <<>>),
                     comprehension(Name("j"), Call1("range", <<Num(2)>>), <<>>)>>))>>),
     Program("try:\n    pass\nfinally:\n    print(1)",
             <<Try(<<Pass>>, <<>>, <<>>, print_1)>>),
     Program("try:\n    nope\nexcept Exception:\n    pass\nfinally:\n    print(1)",
             <<Try(<<Expr(Name("nope"))>>,
                   <<ExceptHandler("Exception", "", <<Pass>>)>>, <<>>, print_1)>>),
     Program("try:\n    nope\nexcept:\n    pass\nfinally:\n    print(1)",
             <<Try(<<Expr(Name("nope"))>>,
                   <<ExceptHandler("", "", <<Pass>>)>>, <<>>, print_1)>>),
     Program("try:\n    nope\nexcept TypeError:\n    pass\nfinally:\n    print(1)",
             <<Try(<<Expr(Name("nope"))>>,
                   <<ExceptHandler("TypeError", "", <<Pass>>)>>, <<>>, print_1)>>),
     Program("try:\n    nope\nexcept NameError:\n    nope\nfinally:\n    print(1)",
             <<Try(<<Expr(Name("nope"))>>,
                   <<ExceptHandler("NameError", "", <<Expr(Name("nope"))>>)>>,
                   <<>>, print_1)>>),
     Program("try:\n    pass\nexcept NameError:\n    pass\nelse:\n    nope\nfinally:\n    print(1)",
             <<Try(<<Pass>>, <<ExceptHandler("NameError", "", <<Pass>>)>>,
                   <<Expr(Name("nope"))>>, print_1)>>),
     Program("while True:\n    break\nelse:\n    print(1)\nprint(2)",
             <<While(True, <<Break>>, print_1), print_2>>),
     Program("while None:\n    pass\nelse:\n    print(1)\nprint(2)",
             <<While(None, <<Pass>>, print_1), print_2>>),
     Program("for i in range(2):\n    if i:\n        break\nelse:\n    print(1)\nprint(2)",
             <<For(Name("i"), Call1("range", <<Num(2)>>),
                   <<If(Name("i"), <<Break>>, <<>>)>>, print_1), print_2>>),
     Program("for i in range(2):\n    continue\nelse:\n    print(1)\nprint(2)",
             <<For(Name("i"), Call1("range", <<Num(2)>>), <<Continue>>, print_1),
               print_2>>),
     Program("return 1 < 2 < 3",
             <<Return(Compare(Num(1), <<"Lt", "Lt">>, <<Num(2), Num(3)>>))>>),
     Program("return 1 < 2 < 0 < nope",
             <<Return(Compare(Num(1), <<"Lt", "Lt", "Lt">>,
                              <<Num(2), Num(0), Name("nope")>>))>>),
     Program("return 0 and nope",
             <<Return(BoolOp("And", <<Num(0), Name("nope")>>))>>),
     Program("return 0 or 5 or nope",
             <<Return(BoolOp("Or", <<Num(0), Num(5), Name("nope")>>))>>),
     Program("1 + None", <<Expr(BinOp(Num(1), "Add", None))>>),
     Program("h()", <<Expr(Call1("h", <<>>))>>),
     Program("h(1, a=2)",
             <<Expr(Call(Name("h"), <<Num(1)>>, <<keyword("a", Num(2))>>))>>),
     Program("h(1, c=3)",
             <<Expr(Call(Name("h"), <<Num(1)>>, <<keyword("c", Num(3))>>))>>),
     Program("h(1, 2)", <<Expr(Call1("h", <<Num(1), Num(2)>>))>>),
     Program("h(5, b=1, b=3)",
             <<Expr(Call(Name("h"), <<Num(5)>>,
                         <<keyword("b", Num(1)), keyword("b", Num(3))>>))>>),
     Program("f = lambda: 1", <<Assign(Name("f"), Lambda)>>),
     Program("x = 'a\\x60b'", <<Assign(Name("x"), Str(<<"a", GRAVE, "b">>))>>),
     Program("return x", <<Return(Name("x"))>>),
     Program("h(None)", <<Expr(Call1("h", <<None>>))>>),
     Program("try:\n    nope\n    print(1)\nexcept NameError as e:\n    print(e)\nexcept Exception:\n    print(3)\nelse:\n    print(4)\nprint(5)",
             <<Try(<<Expr(Name("nope")), print_n(1)>>,
                   <<ExceptHandler("NameError", "e",
                                   <<Expr(Call1("print", <<Name("e")>>))>>),
                     ExceptHandler("Exception", "", <<print_n(3)>>)>>,
                   <<print_n(4)>>, <<>>),
               print_n(5)>>),
     Program("try:\n    nope\n    print(1)\nexcept TypeError:\n    print(3)\nexcept:\n    print(2)\nprint(5)",
             <<Try(<<Expr(Name("nope")), print_n(1)>>,
                   <<ExceptHandler("TypeError", "", <<print_n(3)>>),
                     ExceptHandler("", "", <<print_n(2)>>)>>,
                   <<>>, <<>>),
               print_n(5)>>),
     Program("print(hi)", <<Expr(Call1("print", <<Name("hi")>>))>>),
     AugName, PlainName, AugAttribute, PlainAttribute,
     Program("for exec in range(2):\n    pass",
             <<For(Name("exec"), Call1("range", <<Num(2)>>), <<Pass>>, <<>>)>>),
     Program("try:\n    nope\nexcept NameError as eval:\n    pass",
             <<Try(<<Expr(Name("nope"))>>,
                   <<ExceptHandler("NameError", "eval", <<Pass>>)>>,
                   <<>>, <<>>)>>),
     Program("x = 42\ndef eval():\n    pass\nprint(x)",
             <<Assign(Name("x"), Num(42)),
               FunctionDef("eval", <<>>, <<>>, <<Pass>>),
               print_val(Name("x"))>>),
     BreakInTry,
     CallerLocals}

\* the same for the library: True and None are names, read from the table
LibPrograms ==
    {Program("x = 42\nx", <<Assign(Name("x"), Num(42)), Expr(Name("x"))>>),
     Program("True", <<Expr(Name("True"))>>),
     Program("x.__doc__", <<Expr(Attribute(Name("x"), "__doc__"))>>),
     Program("x.nothing", <<Expr(Attribute(Name("x"), "nothing"))>>),
     Program("return 5\nx = 1", <<Return(Num(5)), Assign(Name("x"), Num(1))>>),
     Program("def foo():\n    return 42\nfoo()",
             <<FunctionDef("foo", <<>>, <<>>, <<Return(Num(42))>>),
               Expr(Call1("foo", <<>>))>>),
     Program("def g():\n    if True:\n        return None\n    return 7\ny = g()\nz = 3",
             <<FunctionDef("g", <<>>, <<>>,
                           <<If(Name("True"), <<Return(Name("None"))>>, <<>>),
                             Return(Num(7))>>),
               Assign(Name("y"), Call1("g", <<>>)),
               Assign(Name("z"), Num(3))>>),
     Program("def k():\n    if True:\n        return 5\n        return 6\ny = k()",
             <<FunctionDef("k", <<>>, <<>>,
                           <<If(Name("True"), <<Return(Num(5)), Return(Num(6))>>,
                                <<>>)>>),
               Assign(Name("y"), Call1("k", <<>>))>>),
     Program("def h(a, b=2):\n    x = a + b\n    i = a",
             <<FunctionDef("h", <<"a", "b">>, <<Num(2)>>,
                           <<Assign(Name("x"), BinOp(Name("a"), "Add", Name("b"))),
                             Assign(Name("i"), Name("a"))>>)>>),
     Program("h(5)", <<Expr(Call1("h", <<Num(5)>>))>>),
     Program("h(b=1, a=2)",
             <<Expr(Call(Name("h"), <<>>,
                         <<keyword("b", Num(1)), keyword("a", Num(2))>>))>>),
     Program("i = 99", <<Assign(Name("i"), Num(99))>>),
     Program("[i for i in range(3) if i]",
             <<Expr(ListComp(Name("i"),
                   <<comprehension(Name("i"), Call1("range", <<Num(3)>>),
                                   <<Name("i")>>)>>))>>),
     Program("[i + None for i in range(3)]",
             <<Expr(ListComp(BinOp(Name("i"), "Add", Name("None")),
                   <<comprehension(Name("i"), Call1("range", <<Num(3)>>),
                                   <<>>)>>))>>),
     Program("lambda: 1", <<Expr(Lambda)>>),
     Program("def p():\n    print 1\n    return 1\np() and 0",
             <<FunctionDef("p", <<>>, <<>>, <<print_stmt(<<Num(1)>>), Return(Num(1))>>),
               Expr(BoolOp("And", <<Call1("p", <<>>), Num(0)>>))>>),
     Program("0 or 5 or nope",
             <<Expr(BoolOp("Or", <<Num(0), Num(5), Name("nope")>>))>>),
     Program("x = 'a\\x60b'", <<Assign(Name("x"), Str(<<"a", GRAVE, "b">>))>>),
     Program("x", <<Expr(Name("x"))>>),
     Program("h(None)", <<Expr(Call1("h", <<Name("None")>>))>>),
     Program("print(hi)", <<print_stmt(<<Name("hi")>>)>>)}

(***************************************************************************)
(* The state machine.  A host builds one interpreter (of the package or of *)
(* the library) and evaluates texts with it; `host` is what the last eval  *)
(* gave back to the host.  A host first sets its names up (any number of   *)
(* the texts of SetupTexts, in any order) and then evaluates up to MaxTexts*)
(* other texts.  Separately, a host calls the safe functions of astutils;  *)
(* `sf` is the last such call and its outcome.                             *)
(***************************************************************************)
VARIABLES variant, interp, host, sf
vars == <<variant, interp, host, sf>>

\* Bounds of the exploration
MaxTexts == 1
MaxWritten == 1
NoTimeout == 1000
SoonTimeout == 3
AmpleCycles == 500
SmallExp == 3
BigCount == 512
FewCycles == 3

\* the texts a host sets its names up with: they bind x, h and i
SetupTexts ==
    {"x = 42\nx", "x = 'a\\x60b'", "i = 99",
     "def h(a, b=2):\n    x = a + b\n    i = a"}

\* the limits of one eval: the time limit and max_cycles
Limits ==
    {<<NoTimeout, AmpleCycles>>, <<SoonTimeout, AmpleCycles>>,
     <<NoTimeout, FewCycles>>}

\* Interpreter.__init__, add_module (src/asteval/asteval.py:78-150)
Interpreter(max_cycles) ==
    [frames |-> <<Frame("Builtins", ("print" :> BuiltinV("print"))
                                    @@ ("range" :> BuiltinV("range"))),
                  Frame("Globals", NoSymbols)>>,
     mod_stack |-> <<"__main__">>,
     error |-> "None",
     interrupt |-> "None",
     cycles |-> 0,
     max_cycles |-> max_cycles,
     timeout |-> NoTimeout,
     writer |-> <<>>]

\* Interpreter.__init__ (src/lib/asteval.py:66-94)
LibInterpreter ==
    [symtable |-> ("True" :> BoolV(TRUE)) @@ ("False" :> BoolV(FALSE))
                  @@ ("None" :> NoneV) @@ ("range" :> BuiltinV("range")),
     error |-> <<>>,
     retval |-> NoneV,
     interrupt |-> "None",
     writer |-> <<>>]

NoEval == [text |-> "", ret |-> NoneV, exc |-> "none", texts |-> 0]
NoCall == [fn |-> "none", args |-> <<>>, out |-> Returns(NoneV), opened |-> <<>>]

Init ==
    /\ variant \in {"asteval", "lib"}
    /\ interp = IF variant = "asteval" THEN Interpreter(AmpleCycles)
                ELSE LibInterpreter
    /\ host = NoEval
    /\ sf = NoCall

\* eval is back with the outcome r: the interpreter is as the eval left it
Returned(text, r) ==
    /\ interp' = r.s
    /\ host' = [text |-> text, ret |-> r.val, exc |-> r.exc,
                texts |-> IF text \in SetupTexts THEN host.texts
                          ELSE host.texts + 1]

\* the host sets max_cycles and calls interp.eval(text) of the package; the
\* clock passes max_time after `timeout` node evaluations
Eval(p, timeout, max_cycles) ==
    /\ variant = "asteval"
    /\ host.texts < MaxTexts
    /\ Len(interp.writer) < MaxWritten
    /\ Returned(p.text, eval(p.node, [interp EXCEPT !.timeout = timeout,
                                                    !.max_cycles = max_cycles]))
    /\ UNCHANGED <<variant, sf>>

\* the host calls interp.eval(text) of the library
LibEval(p) ==
    /\ variant = "lib"
    /\ host.texts < MaxTexts
    /\ Len(interp.writer) < MaxWritten
    /\ Returned(p.text, lib_eval(p.node, interp))
    /\ UNCHANGED <<variant, sf>>

Next ==
    \/ \E p \in Programs, limits \in Limits : Eval(p, limits[1], limits[2])
    \/ \E p \in LibPrograms : LibEval(p)

Spec == Init /\ [][Next]_vars

(***************************************************************************)
(* The host calls the safe functions of astutils directly.  The arguments  *)
(* are drawn around the limits; a power or a shift that the limit lets     *)
(* through is drawn only where its value fits 32-bit integers.             *)
(***************************************************************************)
PowBases == {IntV(-1), IntV(0), IntV(1), IntV(2), StrV(1)}
PowExps ==
    {IntV(n) : n \in -1..SmallExp}
    \cup {IntV(MAX_EXPONENT - 1), IntV(MAX_EXPONENT), IntV(MAX_EXPONENT + 1),
          IntV(MAX_EXPONENT + BigCount), BoolV(TRUE), StrV(1), NoneV}
ShiftArgs == {IntV(-1), IntV(0), IntV(1), IntV(3), StrV(1)}
ShiftCounts ==
    {IntV(n) : n \in -1..SmallExp}
    \cup {IntV(MAX_SHIFT - 1), IntV(MAX_SHIFT), IntV(MAX_SHIFT + 1),
          IntV(MAX_SHIFT + BigCount), BoolV(TRUE), StrV(1), NoneV}
StrLens == {0, 1, 2, BigCount, MAX_STR_LEN - 1, MAX_STR_LEN, MAX_STR_LEN + 1}
Counts == {-1, 0, 1, 2, 3, BigCount, BigCount + 1}
MultArgs ==
    {<<StrV(n), IntV(k)>> : n \in StrLens, k \in Counts}
    \cup {<<IntV(k), StrV(n)>> : n \in StrLens, k \in {2, BigCount + 1}}
    \cup {<<StrV(n), BoolV(TRUE)>> : n \in StrLens}
    \cup {<<IntV(k), IntV(BigCount)>> : k \in Counts}
    \cup {<<StrV(1), StrV(1)>>, <<StrV(1), NoneV>>}
AddArgs ==
    {<<StrV(n), StrV(m)>> : n \in StrLens, m \in StrLens}
    \cup {<<IntV(k), IntV(BigCount)>> : k \in Counts}
    \cup {<<StrV(1), IntV(1)>>, <<ListV(<<IntV(1)>>), ListV(<<>>)>>}

OpenModes == {"r", "rb", "rU", "w", "wb", "a", "r+", "x"}
OpenBuffering ==
    {-1, 0, 1, MAX_OPEN_BUFFER - 1, MAX_OPEN_BUFFER, MAX_OPEN_BUFFER + 1,
     2 * MAX_OPEN_BUFFER}
OpenFiles == {"data.txt", "foo1"}

Called(fn, args, out) ==
    sf' = [fn |-> fn, args |-> args, out |-> out, opened |-> <<>>]

Call_safe_pow ==
    /\ \E base \in PowBases, exp \in PowExps :
          /\ IsInt(base) /\ IsInt(exp) /\ exp.v[1] <= MAX_EXPONENT
                => base.v[1] \in {-1, 0, 1} \/ exp.v[1] <= SmallExp
          /\ Called("safe_pow", <<base, exp>>, safe_pow(base, exp))
    /\ UNCHANGED <<variant, interp, host>>

Call_safe_lshift ==
    /\ \E arg1 \in ShiftArgs, arg2 \in ShiftCounts :
          /\ IsInt(arg1) /\ IsInt(arg2) /\ arg2.v[1] <= MAX_SHIFT
                => arg1.v[1] = 0 \/ arg2.v[1] <= SmallExp
          /\ Called("safe_lshift", <<arg1, arg2>>, safe_lshift(arg1, arg2))
    /\ UNCHANGED <<variant, interp, host>>

Call_safe_mult ==
    /\ \E args \in MultArgs :
          Called("safe_mult", args, safe_mult(args[1], args[2]))
    /\ UNCHANGED <<variant, interp, host>>

Call_safe_add ==
    /\ \E args \in AddArgs :
          Called("safe_add", args, safe_add(args[1], args[2]))
    /\ UNCHANGED <<variant, interp, host>>

\* open(filename, mode, buffering), as the evaluated code reaches it
Opened(args, r) ==
    sf' = [fn |-> "open", args |-> args, out |-> r.out, opened |-> r.opened]

Call_open ==
    /\ \E filename \in OpenFiles, mode \in OpenModes, buffering \in OpenBuffering :
          Opened(<<filename, mode, buffering>>, _open(filename, mode, buffering))
    /\ UNCHANGED <<variant, interp, host>>

GetattrObjects == {IntV(1), StrV(1), ListV(<<>>), NoneV}
GetattrNames ==
    {"real", "upper", "format", "append", "nothing", "mro", "f_locals",
     "__class__", "__doc__", "__len__", "__init__", "__missing__"}

Call_safe_getattr ==
    /\ \E obj \in GetattrObjects, attr \in GetattrNames :
          Called("safe_getattr", <<obj, attr>>, safe_getattr(obj, attr))
    /\ UNCHANGED <<variant, interp, host>>

\* Procedure.__call__: kwargs[kw_name] = xarg for the surplus positional
\* arguments, unless the keyword is given (src/asteval/astutils.py:690-693)
RECURSIVE surplus_to_kwargs(_, _, _, _)
surplus_to_kwargs(surplus, defaults, i, kwargs) ==
    IF i > Len(surplus) THEN kwargs
    ELSE surplus_to_kwargs(surplus, defaults, i + 1,
             IF DictHas(kwargs, KeyV(defaults[i].key)) THEN kwargs
             ELSE DictSet(kwargs, KeyV(defaults[i].key), surplus[i]))

\* Procedure.__call__ of astutils, the binding of the arguments
\* (src/asteval/astutils.py:648-719) with a flat symbol table: val is the
\* dict symlocals.  self.__raise_exc__(None, exc=TypeError, ...) raises the
\* class it is given; the last raise passes none, default_exc is the class
\* raise_exception then takes.
astutils_Procedure_bind(fn, args, kwargs, default_exc) ==
    LET nargs_expected == Len(fn.argnames)
        moved == IF Len(args) < nargs_expected /\ Len(kwargs) > 0
                 THEN SelectSeq(SubSeq(fn.argnames, Len(args) + 1, nargs_expected),
                                LAMBDA name : DictHas(kwargs, KeyV(name)))
                 ELSE <<>>
        args1 == args \o [i \in 1..Len(moved) |-> DictGet(kwargs, KeyV(moved[i]))]
        kwargs1 == SelectSeq(kwargs,
                       LAMBDA p : \A i \in 1..Len(moved) : p.k.v[1] # moved[i])
        nargs == Len(args1)
        surplus == SubSeq(args1, nargs_expected + 1, nargs)
        kwargs2 == IF nargs > nargs_expected /\ fn.vararg = ""
                      /\ Len(surplus) <= Len(fn.kwargs)
                   THEN surplus_to_kwargs(surplus, fn.kwargs, 1, kwargs1)
                   ELSE kwargs1
        positional == [i \in 1..nargs_expected |->
                         [k |-> KeyV(fn.argnames[i]), val |-> args1[i]]]
        varargs == IF fn.vararg # ""
                   THEN <<[k |-> KeyV(fn.vararg), val |-> TupleV(surplus)]>>
                   ELSE <<>>
        defaults == [i \in 1..Len(fn.kwargs) |->
                       [k |-> KeyV(fn.kwargs[i].key),
                        val |-> IF DictHas(kwargs2, KeyV(fn.kwargs[i].key))
                                THEN DictGet(kwargs2, KeyV(fn.kwargs[i].key))
                                ELSE fn.kwargs[i].val]]
        kwargs3 == SelectSeq(kwargs2, LAMBDA p :
                       \A i \in 1..Len(fn.kwargs) : p.k.v[1] # fn.kwargs[i].key)
        varkws == IF fn.varkws # ""
                  THEN <<[k |-> KeyV(fn.varkws), val |-> DictV(kwargs3)]>>
                  ELSE <<>>
    IN  IF nargs < nargs_expected THEN Raises("TypeError")
        ELSE IF \E i \in 1..nargs_expected : DictHas(kwargs1, KeyV(fn.argnames[i]))
        THEN Raises("TypeError")
        ELSE IF nargs > nargs_expected /\ fn.vararg = ""
                /\ Len(surplus) > Len(fn.kwargs)
        THEN Raises("TypeError")
        ELSE IF fn.varkws = "" /\ Len(kwargs3) > 0
        THEN Raises(default_exc)
        ELSE Returns(DictV(positional \o varargs \o defaults \o varkws))

\* the procedures `def p(a, b=2)` and `def q(a, b=2, *rest, **kw)`, and the
\* arguments of a call: the values supplied are pairwise different and
\* differ from the default
Procedures ==
    {Procedure("p", <<Pass>>, <<"a">>, <<[key |-> "b", val |-> IntV(2)]>>, "", ""),
     Procedure("q", <<Pass>>, <<"a">>, <<[key |-> "b", val |-> IntV(2)]>>,
               "rest", "kw")}
ProcedureArgs ==
    {<<>>, <<IntV(1)>>, <<IntV(1), IntV(7)>>, <<IntV(1), IntV(7), IntV(8)>>}
ProcedureKeywords ==
    {<<>>, <<[k |-> KeyV("b"), val |-> IntV(3)]>>,
     <<[k |-> KeyV("a"), val |-> IntV(5)]>>,
     <<[k |-> KeyV("c"), val |-> IntV(9)]>>}

\* a procedure is called and binds its arguments
Call_Procedure ==
    /\ \E proc \in Procedures, args \in ProcedureArgs,
          kwargs \in ProcedureKeywords, default_exc \in {"TypeError", "RuntimeError"} :
          Called("Procedure", <<proc, args, kwargs>>,
                 astutils_Procedure_bind(proc.v[1], args, kwargs, default_exc))
    /\ UNCHANGED <<variant, interp, host>>

InitSafe ==
    /\ variant = "astutils"
    /\ interp = LibInterpreter
    /\ host = NoEval
    /\ sf = NoCall

NextSafe ==
    \/ Call_safe_pow
    \/ Call_safe_lshift
    \/ Call_safe_mult
    \/ Call_safe_add
    \/ Call_open
    \/ Call_safe_getattr
    \/ Call_Procedure

SpecSafe == InitSafe /\ [][NextSafe]_vars

(***************************************************************************)
(* Properties of the safe functions, under SpecSafe.                       *)
(***************************************************************************)

\* C3: safe_pow(a, b) raises RuntimeError exactly when b is a number greater
\* than MAX_EXPONENT, and otherwise gives what a ** b gives; safe_lshift(a, b)
\* raises RuntimeError exactly when b is a number greater than MAX_SHIFT, and
\* otherwise gives what a << b gives.  The limit itself is let through.
C3_PowAndShiftLimits ==
    /\ sf.fn = "safe_pow" =>
          /\ (sf.out.exc = "RuntimeError")
                <=> (IsNumber(sf.args[2]) /\ sf.args[2].v[1] > 10000)
          /\ sf.out.exc # "RuntimeError" => sf.out = PyPow(sf.args[1], sf.args[2])
    /\ sf.fn = "safe_lshift" =>
          /\ (sf.out.exc = "RuntimeError")
                <=> (IsNumber(sf.args[2]) /\ sf.args[2].v[1] > 1000)
          /\ sf.out.exc # "RuntimeError" => sf.out = PyLShift(sf.args[1], sf.args[2])

\* C3 witness: a power whose exponent is the limit itself came back with a value
C3_LimitAccepted ==
    /\ sf.fn = "safe_pow"
    /\ sf.args[2] = IntV(10000)
    /\ sf.out = Returns(IntV(1))

\* C4: safe_mult raises RuntimeError for a string times an integer exactly
\* when len(string) * integer is greater than MAX_STR_LEN, safe_add for two
\* strings exactly when the sum of their lengths is greater than MAX_STR_LEN
\* (a length of exactly MAX_STR_LEN is let through); every call that is not
\* refused gives what * and + give.
C4_StringLengthLimit ==
    /\ sf.fn = "safe_mult" =>
          /\ IsStr(sf.args[1]) /\ IsInt(sf.args[2]) =>
                ((sf.out.exc = "RuntimeError")
                    <=> (sf.args[1].v[1] * sf.args[2].v[1] > 262144))
          /\ sf.out.exc # "RuntimeError" => sf.out = PyMul(sf.args[1], sf.args[2])
    /\ sf.fn = "safe_add" =>
          /\ IsStr(sf.args[1]) /\ IsStr(sf.args[2]) =>
                ((sf.out.exc = "RuntimeError")
                    <=> (sf.args[1].v[1] + sf.args[2].v[1] > 262144))
          /\ sf.out.exc # "RuntimeError" => sf.out = PyAdd(sf.args[1], sf.args[2])

\* C4 witness: a concatenation of exactly MAX_STR_LEN characters, neither
\* operand empty, came back as a string
C4_ExactLengthAllowed ==
    /\ sf.fn = "safe_add"
    /\ IsStr(sf.args[1]) /\ IsStr(sf.args[2])
    /\ sf.args[1].v[1] > 0 /\ sf.args[2].v[1] > 0
    /\ sf.out = Returns(StrV(262144))

\* C5: open raises RuntimeError and opens no file for every mode other than
\* 'r', 'rb', 'rU' and for every buffering greater than MAX_OPEN_BUFFER; every
\* other call, and no call but those, reaches the host's open.
C5_OpenReadOnly ==
    sf.fn = "open" =>
        IF sf.args[2] \notin {"r", "rb", "rU"} \/ sf.args[3] > 262144
        THEN sf.out.exc = "RuntimeError" /\ sf.opened = <<>>
        ELSE sf.opened = << <<sf.args[1], sf.args[2]>> >>

\* C5 witness: a read-mode open with a buffering over the limit was refused
\* with no file opened
C5_BufferingRefused ==
    /\ sf.fn = "open"
    /\ sf.args[2] = "rb"
    /\ sf.args[3] = 262145
    /\ sf.out.exc = "RuntimeError"
    /\ sf.opened = <<>>

(***************************************************************************)
(* What the host can observe of an interpreter after an eval.              *)
(***************************************************************************)
\* the symbol tables, outermost first: the symbols of every frame of the
\* package, the one symtable of the library
symtables(v, s) ==
    IF v = "asteval" THEN [i \in 1..Len(s.frames) |-> s.frames[i].symbols]
    ELSE <<s.symtable>>

\* the binding of a name: <<value>> when a table binds it (the innermost
\* one that does), <<>> when none does
binding(v, s, name) ==
    IF v = "asteval"
    THEN IF find_frame(s, name) = 0 THEN <<>>
         ELSE <<s.frames[find_frame(s, name)].symbols[name]>>
    ELSE IF name \in DOMAIN s.symtable THEN <<s.symtable[name]>> ELSE <<>>

\* the eval came back to the host with no exception raised or recorded
no_error(v, s, h) ==
    /\ h.exc = "none"
    /\ IF v = "asteval" THEN s.error = "None" ELSE s.error = <<>>

(***************************************************************************)
(* Properties of the interpreters, under Spec.                             *)
(***************************************************************************)

\* C1: evaluating the attribute load o.<name> raises AttributeError and never
\* yields the attribute's value, for every name of UNSAFE_ATTRS and every name
\* that starts and ends with two underscores, whatever the object o is: no
\* eval and no safe_getattr call gives such an attribute back, and an eval of
\* `x.__class__` or of `x.__doc__` that got as far as the object x ends with
\* AttributeError (the package) or with the error recorded (the library).
C1_UnsafeAttributeRefused ==
    /\ host.ret.t = "attribute" =>
          host.ret.v[2] \notin UNSAFE_ATTRS /\ ~IsDunder(host.ret.v[2])
    /\ sf.fn = "safe_getattr" /\ (sf.args[2] \in UNSAFE_ATTRS \/ IsDunder(sf.args[2]))
          => sf.out = Raises("AttributeError")
    /\ (/\ host.text \in {"x.__class__", "x.__doc__", "return x.__doc__"}
        /\ binding(variant, interp, "x") # <<>>
        /\ host.exc # "RuntimeError")
          => IF variant = "asteval" THEN host.exc = "AttributeError"
             ELSE interp.error # <<>>

\* C6: eval(text) returns the value of the last statement evaluated in text
\* without needing a return: `x = 42\nx` returns 42, `True` returns True, and
\* a text ending in the call foo() returns the 42 that the call returns.
C6_LastStatementValue ==
    no_error(variant, interp, host) =>
        /\ host.text = "x = 42\nx" => host.ret = IntV(42)
        /\ host.text = "True" => host.ret = BoolV(TRUE)
        /\ host.text = "def foo():\n    return 42\nfoo()" => host.ret = IntV(42)

\* C7: the eval of the package returns the value of a top-level return and
\* does not execute the statements after it (`return 5\nx = 1` returns 5 and
\* binds no x to 1), and returns None whenever the text finishes without a
\* top-level return, also when its last statement is an expression or a call
\* of a procedure that returns a value (`def foo(): return 42\nfoo()`).
C7_TopLevelReturnOnly ==
    variant = "asteval" /\ no_error(variant, interp, host) =>
        /\ host.text = "return 5\nx = 1" =>
              host.ret = IntV(5) /\ binding(variant, interp, "x") # <<IntV(1)>>
        /\ host.text \in {"x = 42\nx", "True", "h(5)", "i = 99",
                          "def foo():\n    return 42\nfoo()"} =>
              host.ret = NoneV

\* C8: when a return executes inside a procedure body, also inside a
\* conditional and also when it returns None, no later statement of the body
\* executes, the call evaluates to the returned value, and the caller goes on
\* after the call: after `y = g()\nz = 3`, where g returns None inside an if
\* and has `return 7` after it, y is None and z is 3; after `y = k()`, where k
\* has `return 5` and then `return 6` inside one if block, y is 5.
C8_ReturnEndsProcedure ==
    no_error(variant, interp, host) =>
        /\ host.text = "def g():\n    if True:\n        return None\n    return 7\ny = g()\nz = 3" =>
              /\ binding(variant, interp, "y") = <<NoneV>>
              /\ binding(variant, interp, "z") = <<IntV(3)>>
        /\ host.text = "def k():\n    if True:\n        return 5\n        return 6\ny = k()" =>
              binding(variant, interp, "y") = <<IntV(5)>>

\* C9: after a procedure call returns normally, every binding of the caller's
\* symbol tables is the same as before the call: an eval of the one statement
\* `h(5)` or `h(b=1, a=2)` that ends without error leaves every table as it
\* was (no a, no b, and x and i as they were outside).
C9_ProcedureScoping ==
    [][(/\ host'.text \in {"h(5)", "h(b=1, a=2)"}
        /\ no_error(variant', interp', host'))
          => symtables(variant', interp') = symtables(variant, interp)]_vars

\* C9 witness: h(5), whose body assigns x and i, returned normally to a caller
\* that binds x to 42 and i to 99 and binds neither parameter
C9_OuterBindingsKept ==
    /\ host.text = "h(5)"
    /\ no_error(variant, interp, host)
    /\ binding(variant, interp, "x") = <<IntV(42)>>
    /\ binding(variant, interp, "i") = <<IntV(99)>>
    /\ binding(variant, interp, "a") = <<>>
    /\ binding(variant, interp, "h") # <<>>

\* C10: a comprehension has no effect on the outer scope: after a list or
\* dict comprehension finishes, normally or by an exception, its target i has
\* the binding, or the absence of a binding, that it had before.
C10_ComprehensionScope ==
    [][host'.text \in {"[i for i in range(3) if i]",
                       "{i: x for i in range(2)}",
                       "[i + None for i in range(3)]"}
          => binding(variant', interp', "i") = binding(variant, interp, "i")]_vars

\* C11: a comprehension with several `for` generators evaluates them as
\* nested loops, the first generator outermost, and produces one element for
\* each combination of target values, in nested-loop order:
\* `[i + i + j for i in range(2) for j in range(2)]` is [0, 1, 2, 3], whenever
\* the eval is not cut short by the time limit.
C11_NestedGenerators ==
    (/\ host.text = "return [i + i + j for i in range(2) for j in range(2)]"
     /\ host.exc # "RuntimeError")
        => /\ host.exc = "none"
           /\ host.ret = ListV(<<IntV(0), IntV(1), IntV(2), IntV(3)>>)

\* the eval that gave `host` ran into neither limit
ample(s) == s.timeout = NoTimeout /\ s.max_cycles = AmpleCycles

\* the programs of one try statement whose finally block prints 1
TryTexts ==
    {"try:\n    pass\nfinally:\n    print(1)",
     "try:\n    nope\nexcept Exception:\n    pass\nfinally:\n    print(1)",
     "try:\n    nope\nexcept:\n    pass\nfinally:\n    print(1)",
     "try:\n    nope\nexcept TypeError:\n    pass\nfinally:\n    print(1)",
     "try:\n    nope\nexcept NameError:\n    nope\nfinally:\n    print(1)",
     "try:\n    pass\nexcept NameError:\n    pass\nelse:\n    nope\nfinally:\n    print(1)"}

\* C12: whichever way control leaves a try statement with a finally block
\* (the body completed, a handler ran, a handler or the else block raised,
\* no handler matched), the finally block has run exactly once
C12_FinallyRunsOnce ==
    [][(host'.text \in TryTexts /\ ample(interp'))
           => interp'.writer = interp.writer \o <<IntV(1)>>]_vars


\* what a loop program prints: 1 in the else block of the loop, 2 after it
LoopPrints ==
    ("while True:\n    break\nelse:\n    print(1)\nprint(2)" :> <<IntV(2)>>)
    @@ ("while None:\n    pass\nelse:\n    print(1)\nprint(2)"
            :> <<IntV(1), IntV(2)>>)
    @@ ("for i in range(2):\n    if i:\n        break\nelse:\n    print(1)\nprint(2)"
            :> <<IntV(2)>>)
    @@ ("for i in range(2):\n    continue\nelse:\n    print(1)\nprint(2)"
            :> <<IntV(1), IntV(2)>>)

\* C13: the else block of a while or for loop runs exactly when the loop
\* ended without break (the test became false, the iterable ran out, also
\* after continue), and after the loop the interrupt marker is None
C13_LoopElse ==
    [][(host'.text \in DOMAIN LoopPrints /\ ample(interp'))
           => /\ host'.exc = "none"
              /\ interp'.writer = interp.writer \o LoopPrints[host'.text]
              /\ interp'.interrupt = "None"]_vars

\* a for loop left by break in its second round: the else block did not run
C13_BreakSkipsElse ==
    /\ host.text = "for i in range(2):\n    if i:\n        break\nelse:\n    print(1)\nprint(2)"
    /\ ample(interp)
    /\ interp.writer = <<IntV(2)>>
    /\ binding(variant, interp, "i") = <<IntV(1)>>

\* the calls of h(a, b=2) that do not fit its parameters, each with the
\* number of nodes the call evaluates before the procedure is entered (the
\* module, the statement, the call, the name h and the argument values)
BadCalls ==
    ("h()" :> 4) @@ ("h(1, a=2)" :> 6) @@ ("h(1, 2, 3)" :> 7)
    @@ ("h(1, c=3)" :> 6)

\* C14: a call that misses a positional parameter, gives one both by
\* position and by keyword, gives more positional values than there are
\* parameters to take them (no *vararg), or names no parameter in a keyword
\* (no **varkws) raises TypeError, and no node of the body is evaluated
C14_BadCallRaises ==
    [][(/\ variant = "asteval"
        /\ binding(variant, interp, "h") # <<>>
        /\ host'.text \in DOMAIN BadCalls
        /\ ample(interp'))
           => /\ host'.exc = "TypeError"
              /\ interp'.error = "TypeError"
              /\ interp'.cycles = BadCalls[host'.text]
              /\ interp'.frames = interp.frames
              /\ interp'.writer = interp.writer]_vars

\* h is defined and was called with a both by position and by keyword
C14_MultipleValues ==
    /\ variant = "asteval"
    /\ binding(variant, interp, "h") # <<>>
    /\ host.text = "h(1, a=2)"
    /\ ample(interp)
    /\ host.exc = "TypeError"
    /\ interp.cycles = 6

\* C15: a positional value beyond the positional parameters is bound to the
\* default-valued parameters in their order of declaration: with h(a, b=2)
\* defined, h(1, 2) binds b to 2 and runs the body; a default-valued
\* parameter given by keyword takes that value (h(b=1, a=2)) and one not
\* given takes its default (h(5)), so all three calls end without error
C15_SurplusToDefaults ==
    [][(/\ variant = "asteval"
        /\ binding(variant, interp, "h") # <<>>
        /\ host'.text \in {"h(1, 2)", "h(b=1, a=2)", "h(5)"}
        /\ ample(interp'))
           => no_error(variant, interp', host')]_vars

C17_ErrorRecorded ==
    (variant = "asteval" /\ ample(interp) /\ host.exc # "none")
        => interp.error = host.exc

\* C18: an eval in which more than max_cycles node evaluations were started
\* ends by raising RuntimeError to the host, whatever try statements the
\* program wraps around the place where the limit is passed; the count
\* starts again at 0 with each eval (the three nodes of `True` are counted
\* as 3, whatever the evals before)
C18_CycleLimit ==
    variant = "asteval" =>
        /\ interp.cycles > interp.max_cycles => host.exc = "RuntimeError"
        /\ (host.text = "True" /\ interp.timeout = NoTimeout)
               => host.exc = "none" /\ interp.cycles = 3

\* the limit was passed inside the body of a try statement whose handler
\* takes every Exception and whose finally block prints
C18_LimitInsideTry ==
    /\ variant = "asteval"
    /\ host.text = "try:\n    nope\nexcept Exception:\n    pass\nfinally:\n    print(1)"
    /\ interp.max_cycles = FewCycles
    /\ interp.cycles > interp.max_cycles
    /\ host.exc = "RuntimeError"

\* C19: a chained comparison evaluates its operands from left to right, each
\* at most once, stops at the first comparison that is false without
\* evaluating the operands after it, and gives the result of the last
\* comparison it made (the cycle counter counts the module, the return, the
\* comparison and one evaluation of each of the three operands reached)
C19_ChainedComparison ==
    (variant = "asteval" /\ ample(interp)) =>
        /\ host.text = "return 1 < 2 < 3"
               => /\ host.exc = "none"
                  /\ host.ret = BoolV(TRUE)
                  /\ interp.cycles = 6
        /\ host.text = "return 1 < 2 < 0 < nope"
               => /\ host.exc = "none"
                  /\ host.ret = BoolV(FALSE)
                  /\ interp.cycles = 6

\* the chain that is false at its second comparison was evaluated
C19_StoppedAtFalse ==
    /\ variant = "asteval"
    /\ ample(interp)
    /\ host.text = "return 1 < 2 < 0 < nope"
    /\ host.ret = BoolV(FALSE)
    /\ interp.cycles = 6

\* C20: `and` and `or` evaluate their operands from left to right, each at
\* most once, stop at the operand that decides the outcome, and give that
\* operand itself: on the package interpreter `0 and nope` is 0 and
\* `0 or 5 or nope` is 5 with nope never evaluated; on the library
\* `p() and 0`, where p prints 1 and returns 1, is 0 with p called once
C20_ShortCircuit ==
    [][/\ (variant = "asteval" /\ ample(interp'))
              => /\ host'.text = "return 0 and nope"
                     => /\ host'.exc = "none"
                        /\ host'.ret = IntV(0)
                        /\ interp'.cycles = 4
                 /\ host'.text = "return 0 or 5 or nope"
                     => /\ host'.exc = "none"
                        /\ host'.ret = IntV(5)
                        /\ interp'.cycles = 5
       /\ (variant = "lib"
           /\ host'.text = "def p():\n    print 1\n    return 1\np() and 0")
              => /\ host'.ret = IntV(0)
                 /\ interp'.writer = interp.writer \o <<IntV(1)>>]_vars

\* C21: the dispatch of a node that has no handler (a Lambda) raises
\* NotImplementedError, and the statement that holds the node binds nothing
C21_UnsupportedNode ==
    [][(/\ variant = "asteval"
        /\ host'.text \in {"lambda: 1", "f = lambda: 1"}
        /\ ample(interp'))
           => /\ host'.exc = "NotImplementedError"
              /\ interp'.error = "NotImplementedError"
              /\ symtables(variant, interp') = symtables(variant, interp)]_vars

\* the assignment of a lambda was refused and f is not bound
C21_LambdaRefused ==
    /\ variant = "asteval"
    /\ host.text = "f = lambda: 1"
    /\ ample(interp)
    /\ host.exc = "NotImplementedError"
    /\ binding(variant, interp, "f") = <<>>

\* C22: after `x = E` the name x is bound to the value of E, and evaluating
\* the name x gives exactly the value x is bound to, a number or a string of
\* any content
C22_AssignedValueRead ==
    [][/\ (host'.text = "x = 'a\\x60b'" /\ (variant = "asteval" => ample(interp')))
              => binding(variant, interp', "x") = <<TextV(<<"a", GRAVE, "b">>)>>
       /\ (/\ binding(variant, interp, "x") # <<>>
           /\ \/ variant = "asteval" /\ host'.text = "return x" /\ ample(interp')
              \/ variant = "lib" /\ host'.text = "x")
              => /\ host'.exc = "none"
                 /\ <<host'.ret>> = binding(variant, interp, "x")]_vars

\* C23: when the body of a called procedure raises (h(None) fails at
\* `x = a + b`), the scopes are what they were before the call: the same
\* frames or symbol table with the same bindings, and on the package
\* interpreter the module stack back at the main module
C23_ScopesRestoredOnError ==
    [][(/\ host'.text = "h(None)"
        /\ binding(variant, interp, "h") # <<>>
        /\ variant = "asteval" => ample(interp'))
           => /\ symtables(variant, interp') = symtables(variant, interp)
              /\ variant = "asteval" => interp'.mod_stack = <<"__main__">>]_vars

\* what a program with a handled exception prints: the body prints 1 after
\* the failing statement, the handler that matches prints the exception it
\* was given or 2, the other handler 3, the else block 4, and the statement
\* after the try prints 5
HandledPrints ==
    ("try:\n    nope\n    print(1)\nexcept NameError as e:\n    print(e)\nexcept Exception:\n    print(3)\nelse:\n    print(4)\nprint(5)"
         :> <<ExceptionV("NameError"), IntV(5)>>)
    @@ ("try:\n    nope\n    print(1)\nexcept TypeError:\n    print(3)\nexcept:\n    print(2)\nprint(5)"
         :> <<IntV(2), IntV(5)>>)

\* C24: when a statement of a try body raises an exception that a handler
\* matches, the rest of the body is skipped, only the first handler whose
\* type matches (a bare except matching anything) runs, with the exception
\* bound to its name, the else block does not run, the pending error is
\* cleared, and the statement after the try runs
C24_HandledException ==
    [][(/\ variant = "asteval"
        /\ host'.text \in DOMAIN HandledPrints
        /\ ample(interp'))
           => /\ host'.exc = "none"
              /\ interp'.error = "None"
              /\ interp'.writer = interp.writer \o HandledPrints[host'.text]]_vars

\* the NameError of the body was handled by the handler named e
C24_NamedHandlerRan ==
    /\ variant = "asteval"
    /\ ample(interp)
    /\ host.text \in DOMAIN HandledPrints
    /\ interp.writer = <<ExceptionV("NameError"), IntV(5)>>
    /\ binding(variant, interp, "e") = <<ExceptionV("NameError")>>

\* C25: after the eval of a statement that fails once (print(hi) with hi
\* unbound) the error record holds exactly one entry, of the kind of the
\* failure, however many levels of the dispatch the exception went through
C25_OneErrorEntry ==
    host.text = "print(hi)"
        => IF variant = "lib" THEN Len(interp.error) = 1
           ELSE ample(interp) => interp.error = "NameError"
\* C26: an augmented assignment to a name or to an attribute ends in the
\* state in which the plain assignment `target = target OP v` ends from the
\* same state, and raises what the plain assignment raises
C26_AugAssignAsPlain ==
    [][\A pair \in AugPlain :
          (host'.text = pair[1].text /\ ample(interp'))
              => LET plain == eval(pair[2].node,
                                   [interp EXCEPT !.timeout = NoTimeout,
                                                  !.max_cycles = AmpleCycles])
                 IN  /\ interp' = plain.s
                     /\ host'.exc = plain.exc]_vars
\* the programs that store to a reserved name: by assignment, as the
\* target of a loop, as the name of an exception handler
ReservedStores ==
    {"exec = 1", "for exec in range(2):\n    pass",
     "try:\n    nope\nexcept NameError as eval:\n    pass"}

\* the names the frames bind
bound_names(s) ==
    UNION {DOMAIN s.frames[i].symbols : i \in 1..Len(s.frames)}

\* C27: no statement binds a name valid_symbol_name rejects: a store to one
\* raises NameError and leaves every frame as it was, and no eval (a
\* procedure definition included) ends with such a name bound in a frame
C27_NoReservedBinding ==
    [][variant = "asteval"
          => /\ (host'.text \in ReservedStores /\ ample(interp'))
                    => /\ host'.exc = "NameError"
                       /\ symtables(variant, interp') = symtables(variant, interp)
             /\ \A name \in bound_names(interp') : valid_symbol_name(name)]_vars
\* C28: once break executes in a loop body, no further statement of that
\* iteration executes, also none that follows the `if` holding the break
\* inside a try statement of the body: the program prints the 0 of the
\* first round and the 5 after the loop, and nothing in the round of the
\* break
C28_BreakEndsIteration ==
    [][(host'.text = BreakInTry.text /\ ample(interp'))
          => /\ host'.exc = "none"
             /\ interp'.writer = interp.writer \o <<IntV(0), IntV(5)>>]_vars
\* C29: a name read in a procedure body resolves against the locals of the
\* procedure, the globals and the builtins, never against the locals of the
\* caller: inner, called from outer, prints the global x and then fails with
\* NameError at v, which only outer binds
C29_NoCallerLocals ==
    [][(host'.text = CallerLocals.text /\ ample(interp'))
          => /\ host'.exc = "NameError"
             /\ interp'.writer = interp.writer \o <<IntV(42)>>]_vars
\* the value is held by the local: it is its value, an element of the
\* tuple of surplus arguments or a value of the dict of extra keywords
holds_value(local, val) ==
    \/ SameValue(local, val)
    \/ local.t = "tuple" /\ \E j \in 1..Len(local.v) : SameValue(local.v[j], val)
    \/ local.t = "dict" /\ \E j \in 1..Len(local.v) : SameValue(local.v[j].val, val)

\* the values a call supplies, positional and by keyword
supplied_values(args, kwargs) ==
    {args[i] : i \in 1..Len(args)} \cup {kwargs[i].val : i \in 1..Len(kwargs)}

\* C30: a call that binds its arguments without raising discards no value
\* it was given: each positional and each keyword value is held by exactly
\* one local of the procedure
C30_NoValueDiscarded ==
    (sf.fn = "Procedure" /\ sf.out.exc = "none")
        => \A val \in supplied_values(sf.args[2], sf.args[3]) :
              Cardinality({i \in 1..Len(sf.out.val.v) :
                             holds_value(sf.out.val.v[i].val, val)}) = 1


=============================================================================
